---- MODULE Spec2Model ----
(***************************************************************************)
(* Inventory ledger and stock aggregation of the inventory tracker.        *)
(*                                                                         *)
(* The route handlers of the API (POST/PUT/DELETE /inventory,              *)
(* POST /stock-movements and the inventory branch of POST /import) run     *)
(* against one of the two IStorage implementations the repository ships:   *)
(* the map-backed MemStorage and the drizzle/Postgres DatabaseStorage.  A  *)
(* handler is a sequence of awaited storage calls; every await is a point  *)
(* where another request may run, so each storage call is one step of the  *)
(* model.                                                                  *)
(***************************************************************************)
EXTENDS Integers, Sequences, FiniteSets, TLC

VARIABLES
    backend,      \* which IStorage implementation `storage` is bound to
    products,     \* rows [id, sku] of the products table / map
    locations,    \* rows [id, name] of the locations table / map
    locationId,   \* next location id (MemStorage.locationId / serial)
    inventory,    \* aggregate rows [id, productId, locationId, quantity]
    inventoryId,  \* next inventory id (MemStorage.inventoryId / serial)
    ledger,       \* stock movements in insertion (id) order
    reqs,         \* the requests being served, one per connection slot
    started,      \* number of requests received so far
    maxInFlight,  \* how many requests the environment lets overlap
    prev,         \* the last completed request, when it created an inventory row
    opsUsed,      \* the operations requested so far
    categories,   \* rows [id, name] of the categories table / map
    categoryId,   \* next category id (MemStorage.categoryId / serial)
    productId,    \* next product id (MemStorage.productId / serial)
    timestamps,   \* timestamps[i]: the timestamp of ledger[i], in days
    clock,        \* the current date, in days
    view,         \* the last read served: its arguments and its result
    seed,         \* MemStorage.initializeDefaultData: pending movement callbacks
    twin          \* a DatabaseStorage given the calls the MemStorage is given

vars == <<backend, products, locations, locationId, inventory, inventoryId, ledger,
          reqs, started, maxInFlight, prev, opsUsed, categories, categoryId,
          productId, timestamps, clock, view, seed, twin>>

(* ------------------------------ bounds -------------------------------- *)

MaxOps == 3
MaxQty == 1
MaxRows == 1
MaxMin == 2
MaxStock == 2
MaxWeeks == 1
MaxMovements == 1
MaxLimit == 2

Slots == {1, 2}
\* (productId, locationId) of a request body: two pairs of the catalog, one
\* with a product that does not exist, one with a location that does not.
RequestPairs == {<<1, 1>>, <<1, 2>>, <<2, 1>>, <<1, 3>>}
Quantities == 0..MaxQty
Deltas == (0 - MaxQty)..MaxQty
Notes == {"sale"}
\* The rows of an inventory import: a known and an unknown sku, the names of
\* two locations and of none, and a row the schema rejects.
NoImportRow == [valid |-> FALSE, sku |-> "", locationName |-> "", quantity |-> 0]
ImportRows ==
    [valid : {TRUE}, sku : {"S1", "S9"}, locationName : {"L1", "L2", "New Loc"},
     quantity : Quantities]
    \cup {NoImportRow}
RECURSIVE SeqsUpTo(_, _)
SeqsUpTo(S, n) ==
    IF n = 0 THEN {<<>>}
    ELSE LET shorter == SeqsUpTo(S, n - 1)
         IN  shorter \cup {Append(q, x) : q \in shorter, x \in S}

(* ------------------------------ storage ------------------------------- *)

NoRow == [id |-> 0, productId |-> 0, locationId |-> 0, quantity |-> 0]
NoMov == [productId |-> 0, locationId |-> 0, quantity |-> 0, note |-> ""]
NoStats == [totalProducts |-> 0, lowStockItems |-> 0, inventoryValue |-> 0,
            stockMovements |-> 0]

\* No read has been served yet.
NoView ==
    [op |-> "none", id |-> 0, quantity |-> 0, minLevel |-> 0, found |-> FALSE,
     status |-> "", total |-> 0, items |-> <<>>, stats |-> NoStats,
     calls |-> 0, inv |-> {}, movements |-> <<>>, limit |-> 0, count |-> 0]

\* An empty inventory table and ledger.
NoTwin == [inventory |-> {}, inventoryId |-> 1, ledger |-> <<>>]

NoData == [productId |-> 0, locationId |-> 0, hasQuantity |-> FALSE, quantity |-> 0]

\* The body of a catalog request: the fields it supplies ("" and 0 when a
\* partial body leaves the field out) and whether the schema accepts it.
NoBody == [name |-> "", sku |-> "", categoryId |-> 0, valid |-> TRUE]

\* getProduct / getLocation, as the routes use them: is there such a row.
GetProduct(id) == \E p \in products : p.id = id

GetLocation(id) == \E l \in locations : l.id = id

\* The id of the product with this sku, 0 when there is none.
GetProductBySku(sku) ==
    LET m == {p \in products : p.sku = sku}
    IN  IF m = {} THEN 0 ELSE (CHOOSE p \in m : \A o \in m : p.id <= o.id).id

\* The id of the location with this name, 0 when there is none.
GetLocationByName(name) ==
    LET m == {l \in locations : l.name = name}
    IN  IF m = {} THEN 0 ELSE (CHOOSE l \in m : \A o \in m : l.id <= o.id).id

GetInventoryItem(inv, id) ==
    IF \E r \in inv : r.id = id THEN CHOOSE r \in inv : r.id = id ELSE NoRow

\* Array.from(map.values()).find(...): the first match in insertion (id) order.
GetInventoryByProductAndLocation(inv, p, l) ==
    LET m == {r \in inv : r.productId = p /\ r.locationId = l}
    IN  IF m = {} THEN NoRow ELSE CHOOSE r \in m : \A o \in m : r.id <= o.id

InsertRow(inv, id, p, l, q) ==
    inv \cup {[id |-> id, productId |-> p, locationId |-> l, quantity |-> q]}

\* { ...inventoryItem, ...updateData }: the supplied fields replace the stored ones.
Merge(r, data) ==
    [id |-> r.id,
     productId |-> IF data.productId # 0 THEN data.productId ELSE r.productId,
     locationId |-> IF data.locationId # 0 THEN data.locationId ELSE r.locationId,
     quantity |-> IF data.hasQuantity THEN data.quantity ELSE r.quantity]

UpdateInventoryItem(inv, id, data) ==
    {IF r.id = id THEN Merge(r, data) ELSE r : r \in inv}

DeleteInventoryItem(inv, id) == {r \in inv : r.id # id}

\* The constraints of the inventory table: the two foreign keys and
\* unique(productId, locationId).  Only the database enforces them.
RowAllowed(inv, row) ==
    /\ GetProduct(row.productId)
    /\ GetLocation(row.locationId)
    /\ \A o \in inv : (o.productId = row.productId /\ o.locationId = row.locationId)
                        => o.id = row.id

\* The foreign keys of the stock_movements table.
MovementAllowed(mov) ==
    GetProduct(mov.productId) /\ GetLocation(mov.locationId)

(* ------------------------------ requests ------------------------------ *)

Idle ==
    [op |-> "idle", pc |-> "idle", status |-> 0, message |-> "", id |-> 0,
     data |-> NoData, existing |-> NoRow, mov |-> NoMov, item |-> NoRow,
     after |-> "", okStatus |-> 0, rows |-> <<>>, row |-> NoImportRow,
     imported |-> 0, errors |-> 0, inv0 |-> {}, led0 |-> <<>>,
     body |-> NoBody, bodies |-> <<>>, cat0 |-> {}, pro0 |-> {}, n |-> 0,
     loc0 |-> {}]

NoPrev == [op |-> "idle", data |-> NoData, led0 |-> <<>>]

InFlight(s) == reqs[s].pc \notin {"idle", "done"}

\* A request is accepted on the lowest free connection slot.
CanStart(s) ==
    /\ ~InFlight(s)
    /\ \A t \in Slots : t < s => InFlight(t)
    /\ started < MaxOps
    /\ Cardinality({t \in Slots : InFlight(t)}) < maxInFlight

Summary(r) ==
    IF r.op = "postInventory" /\ r.status = 201
    THEN [op |-> r.op, data |-> r.data, led0 |-> r.led0]
    ELSE NoPrev

Fresh(op, id, data) ==
    [Idle EXCEPT !.op = op, !.id = id, !.data = data,
                 !.inv0 = inventory, !.led0 = ledger]

Reply(r, status, message) ==
    [r EXCEPT !.pc = "done", !.status = status, !.message = message]

\* POST /import, between two awaits: rows the schema rejects are counted and
\* skipped; the next row starts with the lookup of its sku; after the last
\* row the summary is sent.
RECURSIVE NextImportRow(_)
NextImportRow(r) ==
    IF r.rows = <<>> THEN Reply(r, 200, "Import completed")
    ELSE IF ~Head(r.rows).valid
    THEN NextImportRow([r EXCEPT !.rows = Tail(r.rows), !.errors = r.errors + 1])
    ELSE [r EXCEPT !.pc = "getProductBySku", !.row = Head(r.rows),
                   !.rows = Tail(r.rows),
                   !.data = [NoData EXCEPT !.hasQuantity = TRUE,
                                           !.quantity = Head(r.rows).quantity]]

RowImported(r) == NextImportRow([r EXCEPT !.imported = r.imported + 1])

RowFailed(r) == NextImportRow([r EXCEPT !.errors = r.errors + 1])

\* An awaited storage call throws: the catch block of the import loop counts
\* the row, the catch block of any other handler answers 500.
Failed(r) ==
    IF r.op = "importInventory" THEN RowFailed(r)
    ELSE Reply(r, 500,
               CASE r.op = "postInventory" -> "Failed to create inventory item"
                 [] r.op = "putInventory" -> "Failed to update inventory item"
                 [] r.op = "deleteInventory" -> "Failed to delete inventory item"
                 [] OTHER -> "Failed to create stock movement")

Goto(r, pc) == [r EXCEPT !.pc = pc]

\* Hand a movement to storage.createStockMovement; `after` is what the route
\* does once the call returns.
CallCreateStockMovement(r, mov, after, okStatus) ==
    [r EXCEPT !.pc = "createStockMovement", !.mov = mov, !.after = after,
              !.okStatus = okStatus]

Return(r) ==
    IF r.after = "deleteInventoryItem"
    THEN Goto(r, "deleteInventoryItem")
    ELSE IF r.after = "importNext" THEN RowImported(r)
    ELSE Reply(r, r.okStatus, "")

Begin(s, r) ==
    /\ CanStart(s)
    /\ reqs' = [reqs EXCEPT ![s] = r]
    /\ started' = started + 1
    /\ prev' = Summary(reqs[s])
    /\ opsUsed' = opsUsed \cup {r.op}
    /\ UNCHANGED <<backend, products, locations, locationId, inventory,
                   inventoryId, ledger, timestamps, maxInFlight,
                   categories, categoryId, productId, clock, view, seed, twin>>

Step(s, r) ==
    /\ reqs' = [reqs EXCEPT ![s] = r]
    /\ UNCHANGED <<backend, products, started, maxInFlight, prev, opsUsed,
                   categories, categoryId, productId, clock, view, seed, twin>>

(* ------------------------- POST /inventory ---------------------------- *)

PostInventory(s, p, l, q) ==
    LET r == Fresh("postInventory", 0,
                   [productId |-> p, locationId |-> l,
                    hasQuantity |-> TRUE, quantity |-> q])
    IN  Begin(s, IF GetProduct(p) THEN Goto(r, "getLocation")
                 ELSE Reply(r, 400, "Product does not exist"))

PostInventoryGetLocation(s) ==
    LET r == reqs[s]
    IN  /\ r.op = "postInventory" /\ r.pc = "getLocation"
        /\ Step(s, IF GetLocation(r.data.locationId)
                   THEN Goto(r, "getExisting")
                   ELSE Reply(r, 400, "Location does not exist"))
        /\ UNCHANGED <<locations, locationId, inventory, inventoryId, ledger, timestamps>>

\* Mutant of PostInventoryGetExisting: the existence check is skipped.
PostInventoryGetExistingUnchecked(s) ==
    LET r == reqs[s]
    IN  /\ r.op = "postInventory" /\ r.pc = "getExisting"
        /\ Step(s, Goto(r, "createInventoryItem"))
        /\ UNCHANGED <<locations, locationId, inventory, inventoryId, ledger, timestamps>>

PostInventoryGetExisting(s) ==
    LET r == reqs[s]
        existingInventory == GetInventoryByProductAndLocation(
                                 inventory, r.data.productId, r.data.locationId)
    IN  /\ r.op = "postInventory" /\ r.pc = "getExisting"
        /\ Step(s, IF existingInventory.id # 0
                   THEN Reply(r, 400, "Inventory already exists for this product and location. Use PUT to update.")
                   ELSE Goto(r, "createInventoryItem"))
        /\ UNCHANGED <<locations, locationId, inventory, inventoryId, ledger, timestamps>>

PostInventoryCreate(s) ==
    LET r == reqs[s]
        row == [id |-> inventoryId, productId |-> r.data.productId,
                locationId |-> r.data.locationId, quantity |-> r.data.quantity]
        ok == backend = "mem" \/ RowAllowed(inventory, row)
    IN  /\ r.op = "postInventory" /\ r.pc = "createInventoryItem"
        /\ inventoryId' = inventoryId + 1
        /\ inventory' = IF ok THEN inventory \cup {row} ELSE inventory
        /\ Step(s, IF ok
                   THEN CallCreateStockMovement(r,
                            [productId |-> r.data.productId,
                             locationId |-> r.data.locationId,
                             quantity |-> r.data.quantity,
                             note |-> "Initial inventory"], "reply", 201)
                   ELSE Failed(r))
        /\ UNCHANGED <<locations, locationId, ledger, timestamps>>

(* ------------------------- storage.createStockMovement ---------------- *)

\* Mutant of CreateStockMovement: MemStorage looks the aggregate row up by
\* product alone.
CreateStockMovementByProduct(s) ==
    LET r == reqs[s]
        m == {x \in inventory : x.productId = r.mov.productId}
    IN  /\ r.pc = "createStockMovement"
        /\ IF backend = "mem"
           THEN /\ ledger' = Append(ledger, r.mov)
                /\ timestamps' = Append(timestamps, clock)
                /\ Step(s, [r EXCEPT !.pc = "updateAggregate",
                              !.item = IF m = {} THEN NoRow
                                       ELSE CHOOSE x \in m : \A o \in m : x.id <= o.id])
           ELSE IF MovementAllowed(r.mov)
           THEN /\ ledger' = Append(ledger, r.mov)
                /\ timestamps' = Append(timestamps, clock)
                /\ Step(s, Return(r))
           ELSE /\ UNCHANGED <<ledger, timestamps>>
                /\ Step(s, Failed(r))
        /\ UNCHANGED <<locations, locationId, inventory, inventoryId>>

\* MemStorage: the entry is put in the map and the aggregate row is looked up
\* before the first await.  DatabaseStorage: one insert into stock_movements.
CreateStockMovement(s) ==
    LET r == reqs[s]
    IN  /\ r.pc = "createStockMovement"
        /\ IF backend = "mem"
           THEN /\ ledger' = Append(ledger, r.mov)
                /\ timestamps' = Append(timestamps, clock)
                /\ Step(s, [r EXCEPT !.pc = "updateAggregate",
                              !.item = GetInventoryByProductAndLocation(
                                  inventory, r.mov.productId, r.mov.locationId)])
           ELSE IF MovementAllowed(r.mov)
           THEN /\ ledger' = Append(ledger, r.mov)
                /\ timestamps' = Append(timestamps, clock)
                /\ Step(s, Return(r))
           ELSE /\ UNCHANGED <<ledger, timestamps>>
                /\ Step(s, Failed(r))
        /\ UNCHANGED <<locations, locationId, inventory, inventoryId>>

\* MemStorage only: the row read before the await is rewritten, or a row is
\* created when none was found and the quantity is positive.
CreateStockMovementUpdate(s) ==
    LET r == reqs[s]
    IN  /\ r.pc = "updateAggregate"
        /\ IF r.item.id # 0
           THEN /\ inventory' = UpdateInventoryItem(inventory, r.item.id,
                        [NoData EXCEPT !.hasQuantity = TRUE,
                                       !.quantity = r.item.quantity + r.mov.quantity])
                /\ UNCHANGED inventoryId
           ELSE IF r.mov.quantity > 0
           THEN /\ inventory' = InsertRow(inventory, inventoryId, r.mov.productId,
                                          r.mov.locationId, r.mov.quantity)
                /\ inventoryId' = inventoryId + 1
           ELSE UNCHANGED <<inventory, inventoryId>>
        /\ Step(s, Return(r))
        /\ UNCHANGED <<locations, locationId, ledger, timestamps>>

(* ------------------------- PUT /inventory/:id ------------------------- *)

ChangesPair(data, existing) ==
    \/ (data.productId # 0 /\ data.productId # existing.productId)
    \/ (data.locationId # 0 /\ data.locationId # existing.locationId)

PutInventory(s, id, data) ==
    LET existingInventory == GetInventoryItem(inventory, id)
        r == [Fresh("putInventory", id, data) EXCEPT !.existing = existingInventory]
    IN  Begin(s, IF existingInventory.id = 0
                 THEN Reply(r, 404, "Inventory item not found")
                 ELSE IF ChangesPair(data, existingInventory)
                 THEN Goto(r, "getDuplicate")
                 ELSE Goto(r, "updateInventoryItem"))

\* Mutant of PutInventoryGetDuplicate: the duplicate check is skipped.
PutInventoryGetDuplicateUnchecked(s) ==
    LET r == reqs[s]
    IN  /\ r.op = "putInventory" /\ r.pc = "getDuplicate"
        /\ Step(s, Goto(r, "updateInventoryItem"))
        /\ UNCHANGED <<locations, locationId, inventory, inventoryId, ledger, timestamps>>

PutInventoryGetDuplicate(s) ==
    LET r == reqs[s]
        newProductId == IF r.data.productId # 0 THEN r.data.productId
                        ELSE r.existing.productId
        newLocationId == IF r.data.locationId # 0 THEN r.data.locationId
                         ELSE r.existing.locationId
        duplicateInventory == GetInventoryByProductAndLocation(
                                  inventory, newProductId, newLocationId)
    IN  /\ r.op = "putInventory" /\ r.pc = "getDuplicate"
        /\ Step(s, IF duplicateInventory.id # 0 /\ duplicateInventory.id # r.id
                   THEN Reply(r, 400, "Inventory already exists for this product and location")
                   ELSE Goto(r, "updateInventoryItem"))
        /\ UNCHANGED <<locations, locationId, inventory, inventoryId, ledger, timestamps>>

\* Mutant of PutInventoryUpdate: a movement is recorded whether or not the
\* quantity changed.
PutInventoryUpdateAlways(s) ==
    LET r == reqs[s]
        current == GetInventoryItem(inventory, r.id)
        updated == Merge(current, r.data)
        oldQuantity == r.existing.quantity
        newQuantity == IF r.data.hasQuantity THEN r.data.quantity ELSE oldQuantity
        ok == backend = "mem" \/ current.id = 0 \/ RowAllowed(inventory, updated)
    IN  /\ r.op = "putInventory" /\ r.pc = "updateInventoryItem"
        /\ inventory' = IF ok THEN UpdateInventoryItem(inventory, r.id, r.data)
                        ELSE inventory
        /\ Step(s, IF ~ok THEN Failed(r)
                   ELSE IF current.id = 0 THEN Failed(r)
                   ELSE CallCreateStockMovement(r,
                            [productId |-> updated.productId,
                             locationId |-> updated.locationId,
                             quantity |-> newQuantity - oldQuantity,
                             note |-> "Inventory adjustment"], "reply", 200))
        /\ UNCHANGED <<locations, locationId, inventoryId, ledger, timestamps>>

PutInventoryUpdate(s) ==
    LET r == reqs[s]
        current == GetInventoryItem(inventory, r.id)
        updated == Merge(current, r.data)
        oldQuantity == r.existing.quantity
        newQuantity == IF r.data.hasQuantity THEN r.data.quantity ELSE oldQuantity
        changed == r.data.hasQuantity /\ r.data.quantity # oldQuantity
        ok == backend = "mem" \/ current.id = 0 \/ RowAllowed(inventory, updated)
    IN  /\ r.op = "putInventory" /\ r.pc = "updateInventoryItem"
        /\ inventory' = IF ok THEN UpdateInventoryItem(inventory, r.id, r.data)
                        ELSE inventory
        /\ Step(s, IF ~ok THEN Failed(r)
                   ELSE IF ~changed THEN Reply(r, 200, "")
                   ELSE IF current.id = 0 THEN Failed(r)
                   ELSE CallCreateStockMovement(r,
                            [productId |-> updated.productId,
                             locationId |-> updated.locationId,
                             quantity |-> newQuantity - oldQuantity,
                             note |-> "Inventory adjustment"], "reply", 200))
        /\ UNCHANGED <<locations, locationId, inventoryId, ledger, timestamps>>

(* ------------------------- DELETE /inventory/:id ---------------------- *)

\* Mutant of DeleteInventory: the row is deleted without the compensating
\* movement.
DeleteInventoryUnrecorded(s, id) ==
    LET inv == GetInventoryItem(inventory, id)
        r == [Fresh("deleteInventory", id,
                    [NoData EXCEPT !.productId = inv.productId,
                                   !.locationId = inv.locationId])
              EXCEPT !.existing = inv]
    IN  Begin(s, IF inv.id = 0 THEN Reply(r, 404, "Inventory item not found")
                 ELSE Goto(r, "deleteInventoryItem"))

DeleteInventory(s, id) ==
    LET inv == GetInventoryItem(inventory, id)
        r == [Fresh("deleteInventory", id,
                    [NoData EXCEPT !.productId = inv.productId,
                                   !.locationId = inv.locationId])
              EXCEPT !.existing = inv]
    IN  Begin(s, IF inv.id = 0 THEN Reply(r, 404, "Inventory item not found")
                 ELSE CallCreateStockMovement(r,
                          [productId |-> inv.productId,
                           locationId |-> inv.locationId,
                           quantity |-> 0 - inv.quantity,
                           note |-> "Inventory removed"],
                          "deleteInventoryItem", 204))

DeleteInventoryDelete(s) ==
    LET r == reqs[s]
    IN  /\ r.op = "deleteInventory" /\ r.pc = "deleteInventoryItem"
        /\ inventory' = DeleteInventoryItem(inventory, r.id)
        /\ Step(s, Reply(r, 204, ""))
        /\ UNCHANGED <<locations, locationId, inventoryId, ledger, timestamps>>

(* ------------------------- POST /stock-movements ---------------------- *)

PostStockMovement(s, p, l, q, note) ==
    LET r == [Fresh("postStockMovement", 0,
                    [productId |-> p, locationId |-> l,
                     hasQuantity |-> TRUE, quantity |-> q])
              EXCEPT !.mov = [productId |-> p, locationId |-> l,
                              quantity |-> q, note |-> note]]
    IN  Begin(s, IF GetProduct(p) THEN Goto(r, "getLocation")
                 ELSE Reply(r, 400, "Product does not exist"))

PostStockMovementGetLocation(s) ==
    LET r == reqs[s]
    IN  /\ r.op = "postStockMovement" /\ r.pc = "getLocation"
        /\ Step(s, IF GetLocation(r.data.locationId)
                   THEN CallCreateStockMovement(r, r.mov, "reply", 201)
                   ELSE Reply(r, 400, "Location does not exist"))
        /\ UNCHANGED <<locations, locationId, inventory, inventoryId, ledger, timestamps>>

(* ------------------------- POST /import (inventory) ------------------- *)

ImportInventory(s, rows) ==
    Begin(s, NextImportRow([Fresh("importInventory", 0, NoData)
                            EXCEPT !.rows = rows, !.n = Len(rows),
                                   !.loc0 = locations]))

ImportGetProductBySku(s) ==
    LET r == reqs[s]
        product == GetProductBySku(r.row.sku)
    IN  /\ r.op = "importInventory" /\ r.pc = "getProductBySku"
        /\ Step(s, IF product = 0 THEN RowFailed(r)
                   ELSE [r EXCEPT !.pc = "getLocationByName",
                                  !.data.productId = product])
        /\ UNCHANGED <<locations, locationId, inventory, inventoryId, ledger, timestamps>>

ImportGetLocationByName(s) ==
    LET r == reqs[s]
        location == GetLocationByName(r.row.locationName)
    IN  /\ r.op = "importInventory" /\ r.pc = "getLocationByName"
        /\ Step(s, IF location = 0 THEN Goto(r, "createLocation")
                   ELSE [r EXCEPT !.pc = "getExisting",
                                  !.data.locationId = location])
        /\ UNCHANGED <<locations, locationId, inventory, inventoryId, ledger, timestamps>>

\* createLocation({name, description: ""}); the database rejects a name that
\* a location already has.
ImportCreateLocation(s) ==
    LET r == reqs[s]
        ok == backend = "mem" \/ GetLocationByName(r.row.locationName) = 0
    IN  /\ r.op = "importInventory" /\ r.pc = "createLocation"
        /\ locationId' = locationId + 1
        /\ locations' = IF ok
                        THEN locations \cup {[id |-> locationId,
                                              name |-> r.row.locationName]}
                        ELSE locations
        /\ Step(s, IF ok THEN [r EXCEPT !.pc = "getExisting",
                                        !.data.locationId = locationId]
                   ELSE RowFailed(r))
        /\ UNCHANGED <<inventory, inventoryId, ledger, timestamps>>

ImportGetExisting(s) ==
    LET r == reqs[s]
        existingInventory == GetInventoryByProductAndLocation(
                                 inventory, r.data.productId, r.data.locationId)
    IN  /\ r.op = "importInventory" /\ r.pc = "getExisting"
        /\ Step(s, IF existingInventory.id # 0
                   THEN [r EXCEPT !.pc = "updateInventoryItem",
                                  !.existing = existingInventory]
                   ELSE [r EXCEPT !.pc = "createInventoryItem",
                                  !.existing = NoRow])
        /\ UNCHANGED <<locations, locationId, inventory, inventoryId, ledger, timestamps>>

ImportUpdate(s) ==
    LET r == reqs[s]
        quantityDiff == r.data.quantity - r.existing.quantity
    IN  /\ r.op = "importInventory" /\ r.pc = "updateInventoryItem"
        /\ inventory' = UpdateInventoryItem(inventory, r.existing.id,
                            [NoData EXCEPT !.hasQuantity = TRUE,
                                           !.quantity = r.data.quantity])
        /\ Step(s, IF quantityDiff # 0
                   THEN CallCreateStockMovement(r,
                            [productId |-> r.data.productId,
                             locationId |-> r.data.locationId,
                             quantity |-> quantityDiff,
                             note |-> "Imported inventory adjustment"],
                            "importNext", 200)
                   ELSE RowImported(r))
        /\ UNCHANGED <<locations, locationId, inventoryId, ledger, timestamps>>

ImportCreate(s) ==
    LET r == reqs[s]
        row == [id |-> inventoryId, productId |-> r.data.productId,
                locationId |-> r.data.locationId, quantity |-> r.data.quantity]
        ok == backend = "mem" \/ RowAllowed(inventory, row)
    IN  /\ r.op = "importInventory" /\ r.pc = "createInventoryItem"
        /\ inventoryId' = inventoryId + 1
        /\ inventory' = IF ok THEN inventory \cup {row} ELSE inventory
        /\ Step(s, IF ~ok THEN RowFailed(r)
                   ELSE IF r.data.quantity > 0
                   THEN CallCreateStockMovement(r,
                            [productId |-> r.data.productId,
                             locationId |-> r.data.locationId,
                             quantity |-> r.data.quantity,
                             note |-> "Imported inventory"], "importNext", 200)
                   ELSE RowImported(r))
        /\ UNCHANGED <<locations, locationId, ledger, timestamps>>

(* ------------------------------ system -------------------------------- *)

\* The bodies of PUT /inventory/:id: each field is optional; productId 2 is
\* no product, locationId 2 is a location.
PutBodies ==
    [productId : {0, 2}, locationId : {0, 2},
     hasQuantity : {TRUE}, quantity : Quantities]
    \cup [productId : {0, 2}, locationId : {0, 2},
          hasQuantity : {FALSE}, quantity : {0}]

\* The :id of a request: the id of a row, or one that no row has.
InventoryIds == {r.id : r \in inventory} \cup {inventoryId}

InitStores(n) ==
    /\ backend \in {"mem", "db"}
    /\ products = {[id |-> 1, sku |-> "S1", categoryId |-> 1, unitCost |-> 1,
                     minStockLevel |-> 1]}
    /\ productId = 2
    /\ categories = {[id |-> 1, name |-> "C1"]}
    /\ categoryId = 2
    /\ locations = {[id |-> 1, name |-> "L1"], [id |-> 2, name |-> "L2"]}
    /\ locationId = 3
    /\ inventory = {}
    /\ inventoryId = 1
    /\ ledger = <<>>
    /\ timestamps = <<>>
    /\ clock = 0
    /\ view = NoView
    /\ seed = <<>>
    /\ twin = NoTwin
    /\ reqs = [s \in Slots |-> Idle]
    /\ started = 0
    /\ maxInFlight = n
    /\ prev = NoPrev
    /\ opsUsed = {}

Init == InitStores(1)

Next ==
    \E s \in Slots :
        \/ \E pl \in RequestPairs, q \in Quantities :
               PostInventory(s, pl[1], pl[2], q)
        \/ PostInventoryGetLocation(s)
        \/ PostInventoryGetExisting(s)
        \/ PostInventoryCreate(s)
        \/ CreateStockMovement(s)
        \/ CreateStockMovementUpdate(s)
        \/ \E id \in InventoryIds, data \in PutBodies : PutInventory(s, id, data)
        \/ PutInventoryGetDuplicate(s)
        \/ PutInventoryUpdate(s)
        \/ \E id \in InventoryIds : DeleteInventory(s, id)
        \/ DeleteInventoryDelete(s)
        \/ \E pl \in RequestPairs, q \in Deltas, note \in Notes :
               PostStockMovement(s, pl[1], pl[2], q, note)
        \/ PostStockMovementGetLocation(s)
        \/ \E rows \in SeqsUpTo(ImportRows, MaxRows) : ImportInventory(s, rows)
        \/ ImportGetProductBySku(s)
        \/ ImportGetLocationByName(s)
        \/ ImportCreateLocation(s)
        \/ ImportGetExisting(s)
        \/ ImportUpdate(s)
        \/ ImportCreate(s)

Spec == Init /\ [][Next]_vars

(* ------------------------- faults and overlap ------------------------- *)

\* A query of the database-backed storage rejects (connection lost, timeout):
\* the awaited call throws and the handler's catch block answers 500.
StorageFailure(s) ==
    LET r == reqs[s]
    IN  /\ backend = "db"
        /\ InFlight(s)
        /\ Step(s, Failed(r))
        /\ UNCHANGED <<locations, locationId, inventory, inventoryId, ledger, timestamps>>

NextFault == Next \/ \E s \in Slots : StorageFailure(s)

\* One request at a time, storage calls may fail.
SpecFault == Init /\ [][NextFault]_vars

InitOverlap == InitStores(2)

\* The requests that adjust one pair: its creation, its movements, its
\* quantity updates and its removal.
NextSamePair ==
    \E s \in Slots :
        \/ \E q \in Quantities : PostInventory(s, 1, 1, q)
        \/ PostInventoryGetLocation(s)
        \/ PostInventoryGetExisting(s)
        \/ PostInventoryCreate(s)
        \/ CreateStockMovement(s)
        \/ CreateStockMovementUpdate(s)
        \/ \E id \in InventoryIds, q \in Quantities :
               PutInventory(s, id, [NoData EXCEPT !.hasQuantity = TRUE,
                                                  !.quantity = q])
        \/ PutInventoryUpdate(s)
        \/ \E id \in InventoryIds : DeleteInventory(s, id)
        \/ DeleteInventoryDelete(s)
        \/ \E q \in Deltas, note \in Notes : PostStockMovement(s, 1, 1, q, note)
        \/ PostStockMovementGetLocation(s)

\* Two requests for the same pair may be in flight together and interleave at
\* their awaits.
SpecOverlap == InitOverlap /\ [][NextSamePair]_vars

(* ------------------- MemStorage.initializeDefaultData ----------------- *)

WeekDays == 7

\* The default data; createCategory, createLocation, createProduct and
\* createInventoryItem have no await, so these rows are in the maps when the
\* forEach over the movements starts.
SeedCategories ==
    {[id |-> 1, name |-> "Electronics"], [id |-> 2, name |-> "Furniture"],
     [id |-> 3, name |-> "Office Supplies"], [id |-> 4, name |-> "Clothing"]}

SeedLocations ==
    {[id |-> 1, name |-> "Warehouse A"], [id |-> 2, name |-> "Warehouse B"],
     [id |-> 3, name |-> "Store A"], [id |-> 4, name |-> "Store B"]}

SeedProducts ==
    {[id |-> 1, sku |-> "DXPS-13-9380", categoryId |-> 1, unitCost |-> 1200,
      minStockLevel |-> 10],
     [id |-> 2, sku |-> "IP13-PRO-256", categoryId |-> 1, unitCost |-> 999,
      minStockLevel |-> 15],
     [id |-> 3, sku |-> "SAMS-TV-Q55", categoryId |-> 1, unitCost |-> 850,
      minStockLevel |-> 8],
     [id |-> 4, sku |-> "SONY-WH1000XM4", categoryId |-> 1, unitCost |-> 299,
      minStockLevel |-> 12],
     [id |-> 5, sku |-> "DESK-OAK-48", categoryId |-> 2, unitCost |-> 350,
      minStockLevel |-> 5]}

SeedInventory ==
    {[id |-> 1, productId |-> 1, locationId |-> 1, quantity |-> 24],
     [id |-> 2, productId |-> 2, locationId |-> 3, quantity |-> 8],
     [id |-> 3, productId |-> 3, locationId |-> 2, quantity |-> 0],
     [id |-> 4, productId |-> 4, locationId |-> 3, quantity |-> 2],
     [id |-> 5, productId |-> 5, locationId |-> 1, quantity |-> 15]}

\* age: how many days before `now` the callback dates the movement.
SeedMovements ==
    <<[productId |-> 1, locationId |-> 1, quantity |-> 25,
       note |-> "Initial stock", age |-> WeekDays],
      [productId |-> 2, locationId |-> 3, quantity |-> 12,
       note |-> "Initial stock", age |-> WeekDays],
      [productId |-> 2, locationId |-> 3, quantity |-> 0 - 5,
       note |-> "Sales", age |-> 1],
      [productId |-> 3, locationId |-> 2, quantity |-> 5,
       note |-> "Initial stock", age |-> WeekDays],
      [productId |-> 3, locationId |-> 2, quantity |-> 0 - 5,
       note |-> "Transferred to Store B", age |-> 1],
      [productId |-> 4, locationId |-> 3, quantity |-> 15,
       note |-> "Initial stock", age |-> WeekDays],
      [productId |-> 4, locationId |-> 3, quantity |-> 0 - 13,
       note |-> "Sales", age |-> 1],
      [productId |-> 5, locationId |-> 1, quantity |-> 15,
       note |-> "Initial stock", age |-> WeekDays]>>

\* The constructor, at movements.forEach: every callback is still to be called.
InitSeed ==
    /\ backend = "mem"
    /\ categories = SeedCategories /\ categoryId = 5
    /\ locations = SeedLocations /\ locationId = 5
    /\ products = SeedProducts /\ productId = 6
    /\ inventory = SeedInventory /\ inventoryId = 6
    /\ ledger = <<>>
    /\ timestamps = <<>>
    /\ clock = 0
    /\ view = NoView
    /\ seed = [i \in 1..Len(SeedMovements) |->
                  [i |-> i, pc |-> "call", id |-> 0, item |-> NoRow]]
    /\ twin = NoTwin
    /\ reqs = [s \in Slots |-> Idle]
    /\ started = 0
    /\ maxInFlight = 1
    /\ prev = NoPrev
    /\ opsUsed = {}

SeedMovement(c) ==
    [productId |-> SeedMovements[c.i].productId,
     locationId |-> SeedMovements[c.i].locationId,
     quantity |-> SeedMovements[c.i].quantity,
     note |-> SeedMovements[c.i].note]

\* What a step of the head callback leaves unchanged besides the stores.
SeedStep(rest) ==
    /\ seed' = rest
    /\ UNCHANGED <<backend, products, locations, locationId, reqs, started,
                   maxInFlight, prev, opsUsed, categories, categoryId,
                   productId, clock, view, twin>>

\* forEach calls the callback, which runs createStockMovement up to its first
\* await: the entry is in the map, dated now, and the row has been looked up.
SeedCreateStockMovement ==
    /\ seed # <<>> /\ Head(seed).pc = "call"
    /\ LET c == Head(seed)
           mov == SeedMovement(c)
       IN  /\ ledger' = Append(ledger, mov)
           /\ timestamps' = Append(timestamps, clock)
           /\ SeedStep(Append(Tail(seed),
                   [c EXCEPT !.pc = "updateAggregate", !.id = Len(ledger) + 1,
                             !.item = GetInventoryByProductAndLocation(
                                 inventory, mov.productId, mov.locationId)]))
           /\ UNCHANGED <<inventory, inventoryId>>

\* createStockMovement resumes in a microtask and writes the aggregate row.
SeedUpdateAggregate ==
    /\ seed # <<>> /\ Head(seed).pc = "updateAggregate"
    /\ LET c == Head(seed)
           mov == SeedMovement(c)
       IN  /\ IF c.item.id # 0
              THEN /\ inventory' = UpdateInventoryItem(inventory, c.item.id,
                           [NoData EXCEPT !.hasQuantity = TRUE,
                                          !.quantity = c.item.quantity + mov.quantity])
                   /\ UNCHANGED inventoryId
              ELSE IF mov.quantity > 0
              THEN /\ inventory' = InsertRow(inventory, inventoryId, mov.productId,
                                             mov.locationId, mov.quantity)
                   /\ inventoryId' = inventoryId + 1
              ELSE UNCHANGED <<inventory, inventoryId>>
           /\ SeedStep(Append(Tail(seed), [c EXCEPT !.pc = "setTimestamp"]))
           /\ UNCHANGED <<ledger, timestamps>>

\* The callback resumes with the movement returned and sets the entry of that
\* id again, with the timestamp of the default data.
SeedSetTimestamp ==
    /\ seed # <<>> /\ Head(seed).pc = "setTimestamp"
    /\ LET c == Head(seed)
       IN  /\ ledger' = [ledger EXCEPT ![c.id] = SeedMovement(c)]
           /\ timestamps' = [timestamps EXCEPT
                                ![c.id] = clock - SeedMovements[c.i].age]
           /\ SeedStep(Tail(seed))
           /\ UNCHANGED <<inventory, inventoryId>>

\* Requests are served once the module has been loaded, that is after the
\* microtasks of the constructor have run.
NextSeed ==
    \/ SeedCreateStockMovement
    \/ SeedUpdateAggregate
    \/ SeedSetTimestamp
    \/ /\ seed = <<>>
       /\ \E s \in Slots :
              \/ \E pl \in RequestPairs, q \in Deltas, note \in Notes :
                     PostStockMovement(s, pl[1], pl[2], q, note)
              \/ PostStockMovementGetLocation(s)
              \/ CreateStockMovement(s)
              \/ CreateStockMovementUpdate(s)

SpecSeed == InitSeed /\ [][NextSeed]_vars

(* ------------------------------ reads --------------------------------- *)

RECURSIVE SumRows(_)
SumRows(rows) ==
    IF rows = {} THEN 0
    ELSE LET r == CHOOSE x \in rows : TRUE
         IN  r.quantity + SumRows(rows \ {r})

\* Mutant of ProductTotalStock: only the first row of the product is counted.
ProductTotalStockFirstRow(inv, p) ==
    IF \E r \in inv : r.productId = p
    THEN (CHOOSE r \in inv : r.productId = p
                              /\ \A o \in inv : o.productId = p => r.id <= o.id).quantity
    ELSE 0

\* GET /products/:id: totalStock over the rows of the product.
ProductTotalStock(inv, p) == SumRows({r \in inv : r.productId = p})

\* Mutant of CalculateStockStatus: the boundary quantity = minLevel is In Stock.
CalculateStockStatusExclusive(quantity, minLevel) ==
    IF quantity <= 0 THEN "Out of Stock"
    ELSE IF quantity < minLevel THEN "Low Stock"
    ELSE "In Stock"

\* calculateStockStatus of the client.
CalculateStockStatus(quantity, minLevel) ==
    IF quantity <= 0 THEN "Out of Stock"
    ELSE IF quantity <= minLevel THEN "Low Stock"
    ELSE "In Stock"

ProductOf(id) == CHOOSE p \in products : p.id = id

\* A row joined with its product: minStockLevel is undefined / null when the
\* product is missing, which `|| 0` and `|| 1` then replace.
WithDetails(r) ==
    [id |-> r.id, productId |-> r.productId, locationId |-> r.locationId,
     quantity |-> r.quantity, hasProduct |-> GetProduct(r.productId),
     minStockLevel |-> IF GetProduct(r.productId)
                       THEN ProductOf(r.productId).minStockLevel ELSE 0]

\* The rows of a set in id order (Map insertion order).
RECURSIVE InIdOrder(_)
InIdOrder(rows) ==
    IF rows = {} THEN <<>>
    ELSE LET last == CHOOSE r \in rows : \A o \in rows : o.id <= r.id
         IN  Append(InIdOrder(rows \ {last}), last)

GetInventoryItemsWithDetails(inv) == InIdOrder({WithDetails(r) : r \in inv})

\* aRatio - bRatio < 0, with xRatio = x.quantity / (x.minStockLevel || 1).
RatioDenominator(x) == IF x.minStockLevel = 0 THEN 1 ELSE x.minStockLevel

RatioLess(a, b) ==
    a.quantity * RatioDenominator(b) < b.quantity * RatioDenominator(a)

\* Array.prototype.sort with that comparator: stable.
RECURSIVE InsertByRatio(_, _)
InsertByRatio(sorted, x) ==
    IF sorted = <<>> THEN <<x>>
    ELSE IF RatioLess(x, sorted[Len(sorted)])
    THEN Append(InsertByRatio(SubSeq(sorted, 1, Len(sorted) - 1), x),
                sorted[Len(sorted)])
    ELSE Append(sorted, x)

RECURSIVE SortByRatio(_)
SortByRatio(items) ==
    IF items = <<>> THEN <<>>
    ELSE InsertByRatio(SortByRatio(SubSeq(items, 1, Len(items) - 1)),
                       items[Len(items)])

RECURSIVE Orderings(_)
Orderings(rows) ==
    IF rows = {} THEN {<<>>}
    ELSE UNION {{Append(o, r) : o \in Orderings(rows \ {r})} : r \in rows}

\* The filter of getLowStockItems in the three storages.
IsLowStock(item) ==
    CASE backend = "mem" -> item.hasProduct /\ item.quantity <= item.minStockLevel
      [] backend = "db" -> item.quantity <= item.minStockLevel
      [] OTHER -> item.quantity < item.minStockLevel

\* The sequences getLowStockItems can return.  MemStorage and the
\* DatabaseStorage of part_008 sort; the DatabaseStorage of server/storage.ts
\* returns the rows as the select without ORDER BY delivers them.
GetLowStockItems(inv) ==
    LET items == GetInventoryItemsWithDetails(inv)
        low == SelectSeq(items, IsLowStock)
    IN  IF backend = "db"
        THEN Orderings({low[i] : i \in 1..Len(low)})
        ELSE {SortByRatio(low)}

RECURSIVE InventoryValue(_)
InventoryValue(items) ==
    IF items = <<>> THEN 0
    ELSE (IF Head(items).hasProduct
          THEN Head(items).quantity * ProductOf(Head(items).productId).unitCost
          ELSE 0) + InventoryValue(Tail(items))

\* MemStorage counts the movements of the last seven days, the database
\* storages count the rows of stock_movements.
GetDashboardStats(inv) ==
    LET items == GetInventoryItemsWithDetails(inv)
    IN  [totalProducts |-> Cardinality(products),
         lowStockItems |->
             IF backend = "db"
             THEN Len(SelectSeq(items, LAMBDA i : i.hasProduct /\ IsLowStock(i)))
             ELSE Len(SelectSeq(items, IsLowStock)),
         inventoryValue |-> InventoryValue(items),
         stockMovements |->
             IF backend = "mem"
             THEN Cardinality({i \in 1..Len(ledger) :
                                  timestamps[i] > clock - WeekDays})
             ELSE Len(ledger)]

\* A read leaves every store and every request as it is.
Read(v) ==
    /\ view' = v
    /\ UNCHANGED <<backend, products, locations, locationId, inventory,
                   inventoryId, ledger, reqs, started, maxInFlight, prev,
                   opsUsed, categories, categoryId, productId, timestamps,
                   clock, seed, twin>>

\* The table cell of the client: calculateStockStatus(quantity, minStockLevel).
RenderStockStatus(quantity, minLevel) ==
    Read([NoView EXCEPT !.op = "calculateStockStatus", !.quantity = quantity,
                        !.minLevel = minLevel,
                        !.status = CalculateStockStatus(quantity, minLevel)])

\* GET /dashboard: storage.getLowStockItems().
ReadLowStockItems ==
    \E items \in GetLowStockItems(inventory) :
        Read([NoView EXCEPT !.op = "getLowStockItems", !.items = items,
                            !.inv = inventory])

\* GET /dashboard: storage.getDashboardStats().
ReadDashboardStats ==
    Read([NoView EXCEPT !.op = "getDashboardStats",
                        !.stats = GetDashboardStats(inventory),
                        !.inv = inventory])

\* GET /products/:id: 404 without the product, else its rows are summed.
\* calls counts the consecutive requests for the same id, up to two.
ReadProduct(id) ==
    Read([NoView EXCEPT !.op = "getProduct", !.id = id,
                        !.found = GetProduct(id),
                        !.total = IF GetProduct(id)
                                  THEN ProductTotalStock(inventory, id) ELSE 0,
                        !.calls = IF view.op = "getProduct" /\ view.id = id
                                  THEN 2 ELSE 1,
                        !.inv = inventory])

\* A week goes by.
Tick ==
    /\ clock < MaxWeeks * WeekDays
    /\ clock' = clock + WeekDays
    /\ UNCHANGED <<backend, products, locations, locationId, inventory,
                   inventoryId, ledger, reqs, started, maxInFlight, prev,
                   opsUsed, categories, categoryId, productId, timestamps,
                   view, seed, twin>>

\* Stores for the reads: two products, up to three rows on distinct pairs.
ReadProducts ==
    {{[id |-> 1, sku |-> "S1", categoryId |-> 1, unitCost |-> 1,
       minStockLevel |-> m],
      [id |-> 2, sku |-> "S2", categoryId |-> 1, unitCost |-> 2,
       minStockLevel |-> MaxMin]} : m \in 0..MaxMin}

ReadPairs == <<(<<1, 1>>), (<<1, 2>>), (<<2, 1>>)>>

ReadInventories ==
    {{[id |-> i, productId |-> ReadPairs[i][1], locationId |-> ReadPairs[i][2],
       quantity |-> q[i]] : i \in {j \in 1..3 : q[j] <= MaxStock}}
        : q \in [1..3 -> 0..(MaxStock + 1)]}

InitReads ==
    /\ backend \in {"mem", "db", "db2"}
    /\ products \in ReadProducts
    /\ productId = 3
    /\ categories = {[id |-> 1, name |-> "C1"]}
    /\ categoryId = 2
    /\ locations = {[id |-> 1, name |-> "L1"], [id |-> 2, name |-> "L2"]}
    /\ locationId = 3
    /\ inventory \in ReadInventories
    /\ inventoryId = 4
    /\ ledger = <<>>
    /\ timestamps = <<>>
    /\ clock = 0
    /\ view = NoView
    /\ seed = <<>>
    /\ twin = NoTwin
    /\ reqs = [s \in Slots |-> Idle]
    /\ started = 0
    /\ maxInFlight = 1
    /\ prev = NoPrev
    /\ opsUsed = {}

\* The (quantity, minStockLevel) of the cells rendered: the small ones and
\* the four of the documentation.
StatusInputs ==
    (((0 - 1)..(MaxStock + 1)) \X (0..MaxMin))
        \cup {<<0, 10>>, <<1, 10>>, <<10, 10>>, <<11, 10>>}

NextReads ==
    \/ \E qm \in StatusInputs : RenderStockStatus(qm[1], qm[2])
    \/ ReadLowStockItems
    \/ ReadDashboardStats
    \/ \E id \in 1..3 : ReadProduct(id)
    \/ Tick
    \/ \E s \in Slots :
           \/ \E note \in Notes :
                  started < MaxMovements /\ PostStockMovement(s, 1, 1, 1, note)
           \/ PostStockMovementGetLocation(s)
           \/ CreateStockMovement(s)
           \/ CreateStockMovementUpdate(s)

SpecReads == InitReads /\ [][NextReads]_vars

(* ------------------------------ claims -------------------------------- *)

RECURSIVE SumQuantity(_)
SumQuantity(movs) ==
    IF movs = <<>> THEN 0 ELSE Head(movs).quantity + SumQuantity(Tail(movs))

MovementsOf(led, p, l) ==
    SelectSeq(led, LAMBDA m : m.productId = p /\ m.locationId = l)

\* The aggregate quantity of a pair; a pair without a row holds nothing.
QuantityOf(inv, p, l) == GetInventoryByProductAndLocation(inv, p, l).quantity

HasRow(inv, p, l) == GetInventoryByProductAndLocation(inv, p, l).id # 0

Quiescent == \A s \in Slots : ~InFlight(s)

Completed(s, op) == reqs[s].pc = "done" /\ reqs[s].op = op

Extends(led, old) == Len(led) >= Len(old) /\ SubSeq(led, 1, Len(old)) = old

Appended(led, old) == SubSeq(led, Len(old) + 1, Len(led))

LedgerPairs == {<<ledger[i].productId, ledger[i].locationId>> : i \in 1..Len(ledger)}

\* C1: between requests, after any sequence of recordMovement
\* (POST /stock-movements) and setAbsoluteQuantity (PUT /inventory/:id) calls,
\* every pair with a recorded movement has an aggregate quantity equal to the
\* sum of the quantities of its movements.
C1_AggregateEqualsLedgerSum ==
    (Quiescent /\ opsUsed \subseteq {"postStockMovement", "putInventory"})
        => \A pl \in LedgerPairs :
               QuantityOf(inventory, pl[1], pl[2])
                   = SumQuantity(MovementsOf(ledger, pl[1], pl[2]))

\* C2: when the requests at hand are setAbsoluteQuantity and recordMovement
\* calls for one pair, a request that has read the quantity of the row, and has
\* yet to write the value or the ledger delta it computed from that read, still
\* sees it: the read / compute / write of one request is not interleaved with
\* a write of the other request to the same row.
C2_AtomicReadComputeWrite ==
    (\A t \in Slots :
        reqs[t].op \in {"idle", "putInventory", "postStockMovement"})
    => \A s \in Slots :
        LET r == reqs[s]
        IN  /\ (r.pc = "updateAggregate" /\ r.item.id # 0)
                   => GetInventoryItem(inventory, r.item.id) = r.item
            /\ (r.pc = "updateAggregate" /\ r.item.id = 0)
                   => ~HasRow(inventory, r.mov.productId, r.mov.locationId)
            /\ (r.op = "putInventory"
                    /\ r.pc \in {"getDuplicate", "updateInventoryItem"})
                   => GetInventoryItem(inventory, r.id) = r.existing

\* C3: an operation that ends in failure has committed neither an aggregate
\* change nor a ledger entry.
C3_FailureCommitsNothing ==
    \A s \in Slots :
        (reqs[s].pc = "done" /\ reqs[s].status = 500)
            => (inventory = reqs[s].inv0 /\ ledger = reqs[s].led0)

\* C4: createInitialInventory(p, l, q) on a pair without a row, followed by
\* recordMovement(p, l, d), leaves the aggregate quantity of the pair at q + d
\* and has appended exactly the two movements q and d for the pair.
C4_CreateThenMove ==
    \A s \in Slots :
        LET r == reqs[s]
        IN  (/\ Completed(s, "postStockMovement") /\ r.status = 201
             /\ prev.op = "postInventory"
             /\ prev.data.productId = r.data.productId
             /\ prev.data.locationId = r.data.locationId)
                => /\ QuantityOf(inventory, r.data.productId, r.data.locationId)
                          = prev.data.quantity + r.data.quantity
                   /\ Extends(ledger, prev.led0)
                   /\ Appended(ledger, prev.led0)
                          = <<[productId |-> r.data.productId,
                               locationId |-> r.data.locationId,
                               quantity |-> prev.data.quantity,
                               note |-> "Initial inventory"], r.mov>>

\* C5: setAbsoluteQuantity(p, l, n) on a row with quantity c # n appends exactly
\* one movement n - c for the pair and leaves the aggregate quantity at n.
C5_SetAbsoluteQuantity ==
    \A s \in Slots :
        LET r == reqs[s]
        IN  (/\ Completed(s, "putInventory") /\ r.status = 200
             /\ ~ChangesPair(r.data, r.existing)
             /\ r.data.hasQuantity /\ r.data.quantity # r.existing.quantity)
                => /\ Extends(ledger, r.led0)
                   /\ Appended(ledger, r.led0)
                          = <<[productId |-> r.existing.productId,
                               locationId |-> r.existing.locationId,
                               quantity |-> r.data.quantity - r.existing.quantity,
                               note |-> "Inventory adjustment"]>>
                   /\ QuantityOf(inventory, r.existing.productId,
                                 r.existing.locationId) = r.data.quantity

C8_RemoveInventory ==
    \A s \in Slots :
        LET r == reqs[s]
        IN  (Completed(s, "deleteInventory") /\ r.status = 204)
                => /\ Extends(ledger, r.led0)
                   /\ Appended(ledger, r.led0)
                          = <<[productId |-> r.existing.productId,
                               locationId |-> r.existing.locationId,
                               quantity |-> 0 - r.existing.quantity,
                               note |-> "Inventory removed"]>>
                   /\ inventory = r.inv0 \ {r.existing}
                   /\ ProductTotalStock(inventory, r.existing.productId)
                          = SumRows({x \in r.inv0 :
                                        /\ x.productId = r.existing.productId
                                        /\ x.locationId # r.existing.locationId})

C8_Witness ==
    \E s \in Slots :
        /\ Completed(s, "deleteInventory") /\ reqs[s].status = 204
        /\ reqs[s].existing.quantity # 0
        /\ ProductTotalStock(inventory, reqs[s].existing.productId) # 0

\* C9: recordMovement for a product or location that does not exist is
\* rejected and changes nothing; otherwise it appends one movement with the
\* delta and adds the delta to the aggregate quantity of the pair.
C9_RecordMovement ==
    \A s \in Slots :
        LET r == reqs[s]
            p == r.data.productId
            l == r.data.locationId
        IN  Completed(s, "postStockMovement")
                => IF GetProduct(p) /\ GetLocation(l)
                   THEN /\ r.status = 201
                        /\ Extends(ledger, r.led0)
                        /\ Appended(ledger, r.led0) = <<r.mov>>
                        /\ QuantityOf(inventory, p, l)
                               = QuantityOf(r.inv0, p, l) + r.data.quantity
                   ELSE /\ r.status = 400
                        /\ inventory = r.inv0
                        /\ ledger = r.led0

\* C10: the first movement for a pair without a row creates the row with the
\* movement's delta as its quantity, whatever the delta; a movement for a pair
\* with a row adds the delta to that row and creates no other.
C10_LazyCreation ==
    \A s \in Slots :
        LET r == reqs[s]
            p == r.data.productId
            l == r.data.locationId
            old == GetInventoryByProductAndLocation(r.inv0, p, l)
            rows == {x \in inventory : x.productId = p /\ x.locationId = l}
        IN  (Completed(s, "postStockMovement") /\ r.status = 201)
                => /\ Cardinality(rows) = 1
                   /\ \A x \in rows :
                          IF old.id = 0
                          THEN x.quantity = r.data.quantity
                          ELSE x = [old EXCEPT
                                       !.quantity = old.quantity + r.data.quantity]

\* C11: the ledger is append-only: a step never shortens it, and every entry
\* it holds keeps its productId, locationId, quantity, note and timestamp; this
\* includes the steps of storage initialisation.
C11_LedgerAppendOnly ==
    [][/\ Len(ledger') >= Len(ledger)
       /\ \A i \in 1..Len(ledger) :
              ledger'[i] = ledger[i] /\ timestamps'[i] = timestamps[i]]_vars

\* C12: calculateStockStatus(quantity, minStockLevel) is Out of Stock exactly
\* when quantity <= 0, Low Stock exactly when 0 < quantity <= minStockLevel
\* (boundary included) and In Stock otherwise; (0,10) is Out of Stock, (1,10)
\* and (10,10) are Low Stock, (11,10) is In Stock.
C12_StockStatus ==
    view.op = "calculateStockStatus"
        => LET q == view.quantity
               m == view.minLevel
           IN  /\ view.status \in {"Out of Stock", "Low Stock", "In Stock"}
               /\ (view.status = "Out of Stock") <=> (q <= 0)
               /\ (view.status = "Low Stock") <=> (0 < q /\ q <= m)
               /\ (view.status = "In Stock") <=> (q > 0 /\ q > m)
               /\ (q = 0 /\ m = 10) => view.status = "Out of Stock"
               /\ (q \in {1, 10} /\ m = 10) => view.status = "Low Stock"
               /\ (q = 11 /\ m = 10) => view.status = "In Stock"

C12_Witness ==
    /\ view.op = "calculateStockStatus"
    /\ view.quantity = 10 /\ view.minLevel = 10
    /\ view.status = "Low Stock"

\* C13: getLowStockItems returns exactly the rows with quantity <=
\* minStockLevel of their product, each once: those with quantity =
\* minStockLevel and with quantity <= 0 included, none with more.
C13_LowStockItemsExact ==
    view.op = "getLowStockItems"
        => /\ {view.items[i].id : i \in 1..Len(view.items)}
                  = {r.id : r \in {x \in view.inv :
                        x.quantity <= ProductOf(x.productId).minStockLevel}}
           /\ \A i, j \in 1..Len(view.items) :
                  view.items[i].id = view.items[j].id => i = j

\* C14: the rows getLowStockItems returns are in ascending order of
\* quantity / max(minStockLevel, 1): for consecutive rows a, b,
\* a.quantity * max(b.minStockLevel, 1) <= b.quantity * max(a.minStockLevel, 1).
C14_LowStockItemsSorted ==
    view.op = "getLowStockItems"
        => \A i \in 1..(Len(view.items) - 1) :
               LET a == view.items[i]
                   b == view.items[i + 1]
                   am == IF a.minStockLevel > 1 THEN a.minStockLevel ELSE 1
                   bm == IF b.minStockLevel > 1 THEN b.minStockLevel ELSE 1
               IN  a.quantity * bm <= b.quantity * am

\* C15: a getDashboardStats call returns the number of products, the sum of
\* quantity x unitCost over all rows, the number of rows getLowStockItems
\* returns in the same state, and the number of all ledger entries.
C15_DashboardStats ==
    [][(view' # view /\ view'.op = "getDashboardStats")
          => /\ view'.stats.totalProducts = Cardinality(products')
             /\ view'.stats.inventoryValue
                    = SumRows({[id |-> r.id,
                                quantity |-> r.quantity
                                    * ProductOf(r.productId).unitCost]
                               : r \in inventory'})
             /\ \A items \in GetLowStockItems(inventory') :
                    view'.stats.lowStockItems = Len(items)
             /\ view'.stats.stockMovements = Len(ledger')]_vars

RECURSIVE SumOverLocations(_, _, _)
SumOverLocations(inv, p, ls) ==
    IF ls = {} THEN 0
    ELSE LET l == CHOOSE x \in ls : TRUE
         IN  QuantityOf(inv, p, l) + SumOverLocations(inv, p, ls \ {l})

\* C16: the total stock GET /products/:id returns is the sum of the quantity
\* of the product's rows over all locations (0 without rows) whatever the
\* ledger holds; the read changes no store, and a second read of the product
\* with no write to the rows in between returns the same total.
C16_ProductTotalStock ==
    [][(view' # view /\ view'.op = "getProduct" /\ view'.found)
          => /\ view'.total = SumOverLocations(inventory', view'.id,
                                  {r.locationId : r \in inventory'})
             /\ UNCHANGED <<products, locations, categories, inventory, ledger,
                            timestamps, locationId, inventoryId, categoryId,
                            productId>>
             /\ (view.op = "getProduct" /\ view.id = view'.id
                     /\ view.inv = inventory)
                    => view'.total = view.total]_vars

C16_Witness ==
    /\ view.op = "getProduct" /\ view.found /\ view.calls = 2
    /\ view.inv = inventory
    /\ Cardinality({r \in inventory : r.productId = view.id /\ r.quantity > 0}) = 2
    /\ view.total > SumQuantity(ledger)
    /\ ledger # <<>>

(* ------------------------------ catalog ------------------------------- *)

\* The names and skus of catalog requests: those of the initial rows and new
\* ones.
CategoryNames == {"C1", "C2"}
LocationNames == {"L1", "L3"}
Skus == {"S1", "S2"}
CategoryIds == {c.id : c \in categories} \cup {categoryId}
ProductIds == {p.id : p \in products} \cup {productId}
LocationIds == {l.id : l \in locations}

GetCategory(id) == \E c \in categories : c.id = id

\* The id of the category with this name, 0 when there is none.
GetCategoryByName(name) ==
    LET m == {c \in categories : c.name = name}
    IN  IF m = {} THEN 0 ELSE (CHOOSE c \in m : \A o \in m : c.id <= o.id).id

\* { ...category, ...updateData }, and the same for a location.
UpdateName(rows, id, body) ==
    {IF c.id = id /\ body.name # "" THEN [c EXCEPT !.name = body.name] ELSE c
       : c \in rows}

\* { ...product, ...updateData }
UpdateProduct(rows, id, body) ==
    {IF p.id = id
     THEN [p EXCEPT !.sku = IF body.sku # "" THEN body.sku ELSE p.sku,
                    !.categoryId = IF body.categoryId # 0 THEN body.categoryId
                                   ELSE p.categoryId]
     ELSE p : p \in rows}

\* unique(name) of the categories and of the locations table.  Only the
\* database enforces it.
NameAllowed(rows, row) == \A o \in rows : o.name = row.name => o.id = row.id

\* unique(sku) and the foreign key to categories of the products table.
ProductAllowed(rows, row) ==
    /\ GetCategory(row.categoryId)
    /\ \A o \in rows : o.sku = row.sku => o.id = row.id

\* No row of the products table references the category.
CategoryUnreferenced(id) == \A p \in products : p.categoryId # id

\* No row of the inventory table and none of stock_movements references the
\* product.
ProductUnreferenced(id) ==
    /\ \A r \in inventory : r.productId # id
    /\ \A i \in 1..Len(ledger) : ledger[i].productId # id

CatalogFresh(op, id, body) ==
    [Fresh(op, id, NoData) EXCEPT !.body = body, !.cat0 = categories,
                                  !.pro0 = products]

\* A step of a catalog handler: the inventory, the ledger and the bookkeeping
\* of the connections are left alone.
CatalogStep(s, r) ==
    /\ reqs' = [reqs EXCEPT ![s] = r]
    /\ UNCHANGED <<backend, inventory, inventoryId, ledger, timestamps, started,
                   maxInFlight, prev, opsUsed, clock, view, seed, twin>>

\* POST /import of products, between two awaits: a row the schema rejects is
\* skipped by `continue`, the next row starts with the lookup of its sku.
RECURSIVE NextProductRow(_)
NextProductRow(r) ==
    IF r.bodies = <<>> THEN Reply(r, 200, "Import completed")
    ELSE IF ~Head(r.bodies).valid
    THEN NextProductRow([r EXCEPT !.bodies = Tail(r.bodies)])
    ELSE [r EXCEPT !.pc = "getProductBySku", !.body = Head(r.bodies),
                   !.bodies = Tail(r.bodies)]

ProductRowImported(r) == NextProductRow([r EXCEPT !.imported = r.imported + 1])

ProductRowFailed(r) == NextProductRow([r EXCEPT !.errors = r.errors + 1])

\* An awaited storage call throws: the catch block of the import loop counts
\* the row, the catch block of any other handler answers 500.
CatalogFailed(r) ==
    IF r.op = "importProducts" THEN ProductRowFailed(r)
    ELSE Reply(r, 500,
               CASE r.op = "postCategory" -> "Failed to create category"
                 [] r.op = "putCategory" -> "Failed to update category"
                 [] r.op = "deleteCategory" -> "Failed to delete category"
                 [] r.op = "postLocation" -> "Failed to create location"
                 [] r.op = "putLocation" -> "Failed to update location"
                 [] r.op = "postProduct" -> "Failed to create product"
                 [] r.op = "putProduct" -> "Failed to update product"
                 [] OTHER -> "Failed to delete product")

(* ----------------------------- categories ----------------------------- *)

PostCategory(s, name) ==
    LET r == CatalogFresh("postCategory", 0, [NoBody EXCEPT !.name = name])
    IN  Begin(s, IF GetCategoryByName(name) # 0
                 THEN Reply(r, 400, "Category with this name already exists")
                 ELSE Goto(r, "createCategory"))

PostCategoryCreate(s) ==
    LET r == reqs[s]
        row == [id |-> categoryId, name |-> r.body.name]
        ok == backend = "mem" \/ NameAllowed(categories, row)
    IN  /\ r.op = "postCategory" /\ r.pc = "createCategory"
        /\ categoryId' = categoryId + 1
        /\ categories' = IF ok THEN categories \cup {row} ELSE categories
        /\ CatalogStep(s, IF ok THEN Reply(r, 201, "") ELSE CatalogFailed(r))
        /\ UNCHANGED <<products, productId, locations, locationId>>

PutCategory(s, id, name) ==
    LET r == CatalogFresh("putCategory", id, [NoBody EXCEPT !.name = name])
        existingCategory == GetCategoryByName(name)
    IN  Begin(s, IF name # "" /\ existingCategory # 0 /\ existingCategory # id
                 THEN Reply(r, 400, "Category with this name already exists")
                 ELSE Goto(r, "updateCategory"))

PutCategoryUpdate(s) ==
    LET r == reqs[s]
        updated == UpdateName(categories, r.id, r.body)
        ok == backend = "mem"
              \/ \A row \in updated : NameAllowed(updated, row)
    IN  /\ r.op = "putCategory" /\ r.pc = "updateCategory"
        /\ categories' = IF ok THEN updated ELSE categories
        /\ CatalogStep(s, IF ~ok THEN CatalogFailed(r)
                          ELSE IF ~GetCategory(r.id)
                          THEN Reply(r, 404, "Category not found")
                          ELSE Reply(r, 200, ""))
        /\ UNCHANGED <<categoryId, products, productId, locations, locationId>>

DeleteCategory(s, id) ==
    LET r == CatalogFresh("deleteCategory", id, NoBody)
    IN  Begin(s, IF GetCategory(id) THEN Goto(r, "getProducts")
                 ELSE Reply(r, 404, "Category not found"))

\* Mutant of DeleteCategoryGetProducts: the products are not consulted.
DeleteCategoryGetProductsUnchecked(s) ==
    LET r == reqs[s]
    IN  /\ r.op = "deleteCategory" /\ r.pc = "getProducts"
        /\ CatalogStep(s, Goto(r, "deleteCategory"))
        /\ UNCHANGED <<categories, categoryId, products, productId, locations,
                       locationId>>

DeleteCategoryGetProducts(s) ==
    LET r == reqs[s]
        inUse == \E p \in products : p.categoryId = r.id
    IN  /\ r.op = "deleteCategory" /\ r.pc = "getProducts"
        /\ CatalogStep(s, IF inUse
                          THEN Reply(r, 400, "Cannot delete category that is in use by products")
                          ELSE Goto(r, "deleteCategory"))
        /\ UNCHANGED <<categories, categoryId, products, productId, locations,
                       locationId>>

DeleteCategoryDelete(s) ==
    LET r == reqs[s]
        ok == backend = "mem" \/ CategoryUnreferenced(r.id)
    IN  /\ r.op = "deleteCategory" /\ r.pc = "deleteCategory"
        /\ categories' = IF ok THEN {c \in categories : c.id # r.id}
                         ELSE categories
        /\ CatalogStep(s, IF ok THEN Reply(r, 204, "") ELSE CatalogFailed(r))
        /\ UNCHANGED <<categoryId, products, productId, locations, locationId>>

(* ------------------------------ locations ----------------------------- *)

PostLocation(s, name) ==
    LET r == CatalogFresh("postLocation", 0, [NoBody EXCEPT !.name = name])
    IN  Begin(s, IF GetLocationByName(name) # 0
                 THEN Reply(r, 400, "Location with this name already exists")
                 ELSE Goto(r, "createLocation"))

PostLocationCreate(s) ==
    LET r == reqs[s]
        row == [id |-> locationId, name |-> r.body.name]
        ok == backend = "mem" \/ NameAllowed(locations, row)
    IN  /\ r.op = "postLocation" /\ r.pc = "createLocation"
        /\ locationId' = locationId + 1
        /\ locations' = IF ok THEN locations \cup {row} ELSE locations
        /\ CatalogStep(s, IF ok THEN Reply(r, 201, "") ELSE CatalogFailed(r))
        /\ UNCHANGED <<categories, categoryId, products, productId>>

PutLocation(s, id, name) ==
    LET r == CatalogFresh("putLocation", id, [NoBody EXCEPT !.name = name])
        existingLocation == GetLocationByName(name)
    IN  Begin(s, IF name # "" /\ existingLocation # 0 /\ existingLocation # id
                 THEN Reply(r, 400, "Location with this name already exists")
                 ELSE Goto(r, "updateLocation"))

PutLocationUpdate(s) ==
    LET r == reqs[s]
        updated == UpdateName(locations, r.id, r.body)
        ok == backend = "mem"
              \/ \A row \in updated : NameAllowed(updated, row)
    IN  /\ r.op = "putLocation" /\ r.pc = "updateLocation"
        /\ locations' = IF ok THEN updated ELSE locations
        /\ CatalogStep(s, IF ~ok THEN CatalogFailed(r)
                          ELSE IF ~GetLocation(r.id)
                          THEN Reply(r, 404, "Location not found")
                          ELSE Reply(r, 200, ""))
        /\ UNCHANGED <<locationId, categories, categoryId, products, productId>>

(* ------------------------------ products ------------------------------ *)

\* A created product; the fields the model does not vary are fixed.
NewProduct(id, body) ==
    [id |-> id, sku |-> body.sku, categoryId |-> body.categoryId,
     unitCost |-> 1, minStockLevel |-> 1]

PostProduct(s, sku, category) ==
    LET r == CatalogFresh("postProduct", 0,
                          [NoBody EXCEPT !.sku = sku, !.categoryId = category])
    IN  Begin(s, IF GetProductBySku(sku) # 0
                 THEN Reply(r, 400, "Product with this SKU already exists")
                 ELSE Goto(r, "getCategory"))

PostProductGetCategory(s) ==
    LET r == reqs[s]
    IN  /\ r.op = "postProduct" /\ r.pc = "getCategory"
        /\ CatalogStep(s, IF GetCategory(r.body.categoryId)
                          THEN Goto(r, "createProduct")
                          ELSE Reply(r, 400, "Category does not exist"))
        /\ UNCHANGED <<categories, categoryId, products, productId, locations,
                       locationId>>

PostProductCreate(s) ==
    LET r == reqs[s]
        row == NewProduct(productId, r.body)
        ok == backend = "mem" \/ ProductAllowed(products, row)
    IN  /\ r.op = "postProduct" /\ r.pc = "createProduct"
        /\ productId' = productId + 1
        /\ products' = IF ok THEN products \cup {row} ELSE products
        /\ CatalogStep(s, IF ok THEN Reply(r, 201, "") ELSE CatalogFailed(r))
        /\ UNCHANGED <<categories, categoryId, locations, locationId>>

\* existingProduct of PUT /products/:id: the row getProduct returned.
ExistingProduct(r) == CHOOSE p \in r.pro0 : p.id = r.id

\* PUT /products/:id once the sku is settled: the category is looked up only
\* when the body changes it.
PutProductCategory(r) ==
    IF r.body.categoryId # 0 /\ r.body.categoryId # ExistingProduct(r).categoryId
    THEN Goto(r, "getCategory")
    ELSE Goto(r, "updateProduct")

PutProduct(s, id, body) ==
    LET r == CatalogFresh("putProduct", id, body)
    IN  Begin(s, IF ~GetProduct(id) THEN Reply(r, 404, "Product not found")
                 ELSE IF body.sku # "" /\ body.sku # ExistingProduct(r).sku
                 THEN Goto(r, "getProductBySku")
                 ELSE PutProductCategory(r))

PutProductGetBySku(s) ==
    LET r == reqs[s]
    IN  /\ r.op = "putProduct" /\ r.pc = "getProductBySku"
        /\ CatalogStep(s, IF GetProductBySku(r.body.sku) # 0
                          THEN Reply(r, 400, "Product with this SKU already exists")
                          ELSE PutProductCategory(r))
        /\ UNCHANGED <<categories, categoryId, products, productId, locations,
                       locationId>>

PutProductGetCategory(s) ==
    LET r == reqs[s]
    IN  /\ r.op = "putProduct" /\ r.pc = "getCategory"
        /\ CatalogStep(s, IF GetCategory(r.body.categoryId)
                          THEN Goto(r, "updateProduct")
                          ELSE Reply(r, 400, "Category does not exist"))
        /\ UNCHANGED <<categories, categoryId, products, productId, locations,
                       locationId>>

PutProductUpdate(s) ==
    LET r == reqs[s]
        updated == UpdateProduct(products, r.id, r.body)
        ok == backend = "mem"
              \/ \A row \in updated : ProductAllowed(updated, row)
    IN  /\ r.op = "putProduct" /\ r.pc = "updateProduct"
        /\ products' = IF ok THEN updated ELSE products
        /\ CatalogStep(s, IF ok THEN Reply(r, 200, "") ELSE CatalogFailed(r))
        /\ UNCHANGED <<categories, categoryId, productId, locations, locationId>>

DeleteProduct(s, id) ==
    LET r == CatalogFresh("deleteProduct", id, NoBody)
    IN  Begin(s, IF GetProduct(id) THEN Goto(r, "getInventoryItems")
                 ELSE Reply(r, 404, "Product not found"))

DeleteProductGetInventory(s) ==
    LET r == reqs[s]
        inUse == \E i \in inventory : i.productId = r.id
    IN  /\ r.op = "deleteProduct" /\ r.pc = "getInventoryItems"
        /\ CatalogStep(s, IF inUse
                          THEN Reply(r, 400, "Cannot delete product that has inventory items")
                          ELSE Goto(r, "deleteProduct"))
        /\ UNCHANGED <<categories, categoryId, products, productId, locations,
                       locationId>>

DeleteProductDelete(s) ==
    LET r == reqs[s]
        ok == backend = "mem" \/ ProductUnreferenced(r.id)
    IN  /\ r.op = "deleteProduct" /\ r.pc = "deleteProduct"
        /\ products' = IF ok THEN {p \in products : p.id # r.id} ELSE products
        /\ CatalogStep(s, IF ok THEN Reply(r, 204, "") ELSE CatalogFailed(r))
        /\ UNCHANGED <<categories, categoryId, productId, locations, locationId>>

(* ------------------------- POST /import (products) -------------------- *)

\* The rows of a products import: an existing and a new sku, an existing and
\* a new category name, and a row the schema rejects.
NoProductRow == [NoBody EXCEPT !.valid = FALSE]
ProductRows ==
    [name : CategoryNames, sku : Skus, categoryId : {0}, valid : {TRUE}]
    \cup {NoProductRow}

ImportProducts(s, rows) ==
    Begin(s, NextProductRow([CatalogFresh("importProducts", 0, NoBody)
                             EXCEPT !.bodies = rows, !.n = Len(rows)]))

ImportProductGetBySku(s) ==
    LET r == reqs[s]
    IN  /\ r.op = "importProducts" /\ r.pc = "getProductBySku"
        /\ CatalogStep(s, IF GetProductBySku(r.body.sku) # 0
                          THEN ProductRowFailed(r)
                          ELSE Goto(r, "getCategoryByName"))
        /\ UNCHANGED <<categories, categoryId, products, productId, locations,
                       locationId>>

ImportProductGetCategory(s) ==
    LET r == reqs[s]
        category == GetCategoryByName(r.body.name)
    IN  /\ r.op = "importProducts" /\ r.pc = "getCategoryByName"
        /\ CatalogStep(s, IF category = 0 THEN Goto(r, "createCategory")
                          ELSE [r EXCEPT !.pc = "createProduct",
                                         !.body.categoryId = category])
        /\ UNCHANGED <<categories, categoryId, products, productId, locations,
                       locationId>>

ImportProductCreateCategory(s) ==
    LET r == reqs[s]
        row == [id |-> categoryId, name |-> r.body.name]
        ok == backend = "mem" \/ NameAllowed(categories, row)
    IN  /\ r.op = "importProducts" /\ r.pc = "createCategory"
        /\ categoryId' = categoryId + 1
        /\ categories' = IF ok THEN categories \cup {row} ELSE categories
        /\ CatalogStep(s, IF ok THEN [r EXCEPT !.pc = "createProduct",
                                               !.body.categoryId = row.id]
                          ELSE CatalogFailed(r))
        /\ UNCHANGED <<products, productId, locations, locationId>>

ImportProductCreate(s) ==
    LET r == reqs[s]
        row == NewProduct(productId, r.body)
        ok == backend = "mem" \/ ProductAllowed(products, row)
    IN  /\ r.op = "importProducts" /\ r.pc = "createProduct"
        /\ productId' = productId + 1
        /\ products' = IF ok THEN products \cup {row} ELSE products
        /\ CatalogStep(s, IF ok THEN ProductRowImported(r) ELSE CatalogFailed(r))
        /\ UNCHANGED <<categories, categoryId, locations, locationId>>

(* ----------------------- catalog specifications ----------------------- *)

\* The bodies of PUT /products/:id: the sku, the category, both or neither.
PutProductBodies ==
    [name : {""}, sku : {"", "S2"}, categoryId : {0, 2}, valid : {TRUE}]

\* The catalog routes, and the routes that give product 1 an inventory row
\* or a ledger entry.
NextCatalog ==
    \E s \in Slots :
        \/ \E name \in CategoryNames : PostCategory(s, name)
        \/ PostCategoryCreate(s)
        \/ \E id \in CategoryIds, name \in CategoryNames : PutCategory(s, id, name)
        \/ PutCategoryUpdate(s)
        \/ \E name \in LocationNames : PostLocation(s, name)
        \/ PostLocationCreate(s)
        \/ \E id \in LocationIds, name \in LocationNames : PutLocation(s, id, name)
        \/ PutLocationUpdate(s)
        \/ \E sku \in Skus, category \in CategoryIds : PostProduct(s, sku, category)
        \/ PostProductGetCategory(s)
        \/ PostProductCreate(s)
        \/ \E id \in ProductIds, body \in PutProductBodies : PutProduct(s, id, body)
        \/ PutProductGetBySku(s)
        \/ PutProductGetCategory(s)
        \/ PutProductUpdate(s)
        \/ \E rows \in SeqsUpTo(ProductRows, MaxRows) : ImportProducts(s, rows)
        \/ ImportProductGetBySku(s)
        \/ ImportProductGetCategory(s)
        \/ ImportProductCreateCategory(s)
        \/ ImportProductCreate(s)
        \/ \E id \in CategoryIds : DeleteCategory(s, id)
        \/ DeleteCategoryGetProducts(s)
        \/ DeleteCategoryDelete(s)
        \/ \E id \in ProductIds : DeleteProduct(s, id)
        \/ DeleteProductGetInventory(s)
        \/ DeleteProductDelete(s)
        \/ PostInventory(s, 1, 1, 1)
        \/ PostInventoryGetLocation(s)
        \/ PostInventoryGetExisting(s)
        \/ PostInventoryCreate(s)
        \/ \E q \in Deltas, note \in Notes : PostStockMovement(s, 1, 1, q, note)
        \/ PostStockMovementGetLocation(s)
        \/ CreateStockMovement(s)
        \/ CreateStockMovementUpdate(s)

\* One catalog request at a time.
SpecCatalog == Init /\ [][NextCatalog]_vars

\* Two catalog requests may be in flight together and interleave at their
\* awaits.
\* Two catalog requests may be in flight together and interleave at their
\* awaits.
NextCatalogOverlap ==
    \E s \in Slots :
        \/ \E name \in CategoryNames : PostCategory(s, name)
        \/ PostCategoryCreate(s)
        \/ \E id \in CategoryIds, name \in CategoryNames : PutCategory(s, id, name)
        \/ PutCategoryUpdate(s)
        \/ \E name \in LocationNames : PostLocation(s, name)
        \/ PostLocationCreate(s)
        \/ \E id \in LocationIds, name \in LocationNames : PutLocation(s, id, name)
        \/ PutLocationUpdate(s)
        \/ \E sku \in Skus, category \in CategoryIds : PostProduct(s, sku, category)
        \/ PostProductGetCategory(s)
        \/ PostProductCreate(s)
        \/ \E id \in ProductIds, body \in PutProductBodies : PutProduct(s, id, body)
        \/ PutProductGetBySku(s)
        \/ PutProductGetCategory(s)
        \/ PutProductUpdate(s)
        \/ \E rows \in SeqsUpTo(ProductRows, MaxRows) : ImportProducts(s, rows)
        \/ ImportProductGetBySku(s)
        \/ ImportProductGetCategory(s)
        \/ ImportProductCreateCategory(s)
        \/ ImportProductCreate(s)

SpecCatalogOverlap == InitOverlap /\ [][NextCatalogOverlap]_vars

\* C17: deleting a category that products reference is rejected with the
\* referential-integrity error and leaves the categories and the products as
\* they were; deleting a category no product references succeeds and removes
\* it.
C17_CategoryDeleteGuarded ==
    \A s \in Slots :
        LET r == reqs[s]
            referenced == \E p \in r.pro0 : p.categoryId = r.id
        IN  (Completed(s, "deleteCategory") /\ \E c \in r.cat0 : c.id = r.id) =>
                IF referenced
                THEN /\ r.status = 400
                     /\ r.message = "Cannot delete category that is in use by products"
                     /\ categories = r.cat0
                     /\ products = r.pro0
                ELSE /\ r.status = 204
                     /\ categories = {c \in r.cat0 : c.id # r.id}
                     /\ products = r.pro0

\* Category 1, which product 1 referenced at first, has been deleted after
\* the product was reassigned or deleted.
C17_Witness ==
    \E s \in Slots :
        /\ Completed(s, "deleteCategory")
        /\ reqs[s].id = 1
        /\ reqs[s].status = 204
        /\ ~GetCategory(1)
        /\ opsUsed \cap {"putProduct", "deleteProduct"} # {}

\* C18: deleting a product is rejected, and the product stays, whenever an
\* inventory row or a stock movement references it; it succeeds and removes
\* the product when neither does.
C18_ProductDeleteGuarded ==
    \A s \in Slots :
        LET r == reqs[s]
            referenced ==
                \/ \E i \in r.inv0 : i.productId = r.id
                \/ \E k \in 1..Len(r.led0) : r.led0[k].productId = r.id
        IN  (Completed(s, "deleteProduct") /\ \E p \in r.pro0 : p.id = r.id) =>
                IF referenced
                THEN r.status # 204 /\ products = r.pro0
                ELSE r.status = 204 /\ products = {p \in r.pro0 : p.id # r.id}

\* C19: no two products share a sku, no two categories a name and no two
\* locations a name, whatever requests interleave.
C19_CatalogUnique ==
    /\ \A p, q \in products : p.sku = q.sku => p.id = q.id
    /\ \A c, d \in categories : c.name = d.name => c.id = d.id
    /\ \A l, m \in locations : l.name = m.name => l.id = m.id

\* C20: a finished import of N rows, of products or of inventory, reports
\* imported + errors = N.
C20_ImportAccounting ==
    \A s \in Slots :
        (reqs[s].pc = "done" /\ reqs[s].op \in {"importProducts", "importInventory"})
            => reqs[s].imported + reqs[s].errors = reqs[s].n

\* C21: an import of one inventory row whose sku is that of a product and
\* whose locationName no location had creates exactly one location of that
\* name, leaves the aggregate row of (product, new location) at the row's
\* quantity, and counts the row as imported and not as an error.
C21_ImportCreatesLocation ==
    \A s \in Slots :
        LET r == reqs[s]
            product == GetProductBySku(r.row.sku)
            created == {l \in locations : l.name = r.row.locationName}
        IN  (/\ Completed(s, "importInventory") /\ r.n = 1 /\ r.row.valid
             /\ product # 0
             /\ \A l \in r.loc0 : l.name # r.row.locationName)
                => /\ Cardinality(created) = 1
                   /\ locations = r.loc0 \cup created
                   /\ \A l \in created :
                          /\ HasRow(inventory, product, l.id)
                          /\ QuantityOf(inventory, product, l.id) = r.row.quantity
                   /\ r.imported = 1 /\ r.errors = 0

\* C23: a movement whose delta takes the aggregate quantity of its pair below
\* zero is accepted: one ledger entry is appended and the pair's aggregate
\* row holds the negative quantity, whether or not the pair had a row.
C23_NegativeAccepted ==
    \A s \in Slots :
        LET r == reqs[s]
            p == r.data.productId
            l == r.data.locationId
            sum == QuantityOf(r.inv0, p, l) + r.data.quantity
        IN  (/\ Completed(s, "postStockMovement")
             /\ GetProduct(p) /\ GetLocation(l)
             /\ sum < 0)
                => /\ r.status = 201
                   /\ Extends(ledger, r.led0)
                   /\ Appended(ledger, r.led0) = <<r.mov>>
                   /\ HasRow(inventory, p, l)
                   /\ QuantityOf(inventory, p, l) = sum

\* C22: an import whose only row fails still answers with the summary, counts
\* the row as an error, and leaves the catalog, the aggregate rows and the
\* ledger as they were before the row.
C22_ImportRowIsolated ==
    \A s \in Slots :
        LET r == reqs[s]
        IN  (/\ r.pc = "done" /\ r.op \in {"importInventory", "importProducts"}
             /\ r.n = 1 /\ r.imported = 0)
                => /\ r.status = 200
                   /\ r.errors = 1
                   /\ inventory = r.inv0
                   /\ ledger = r.led0
                   /\ r.op = "importInventory" => locations = r.loc0
                   /\ r.op = "importProducts"
                          => (categories = r.cat0 /\ products = r.pro0)

(* ---------------------------- ledger reads ---------------------------- *)

\* The limit GET /dashboard passes to getRecentStockMovements.
RecentLimit == 5

\* b.timestamp - a.timestamp < 0 for the entries with ids a and b.
Newer(a, b) == timestamps[a] > timestamps[b]

\* Array.prototype.sort with that comparator: stable.
RECURSIVE InsertByTimestamp(_, _)
InsertByTimestamp(sorted, x) ==
    IF sorted = <<>> THEN <<x>>
    ELSE IF Newer(x, sorted[Len(sorted)])
    THEN Append(InsertByTimestamp(SubSeq(sorted, 1, Len(sorted) - 1), x),
                sorted[Len(sorted)])
    ELSE Append(sorted, x)

RECURSIVE SortByTimestamp(_)
SortByTimestamp(ids) ==
    IF ids = <<>> THEN <<>>
    ELSE InsertByTimestamp(SortByTimestamp(SubSeq(ids, 1, Len(ids) - 1)),
                           ids[Len(ids)])

\* orderBy(desc(stockMovements.timestamp)): any order of the rows in which no
\* entry comes before a newer one.
OrderedByTimestamp ==
    {o \in Orderings(1..Len(ledger)) :
        \A i, j \in 1..Len(o) : i < j => ~Newer(o[j], o[i])}

\* The sequences of ledger ids getStockMovementsWithDetails can return.
\* MemStorage sorts the map's values, which are in insertion order; the
\* database orders by timestamp alone.
GetStockMovementsWithDetails ==
    IF backend = "mem"
    THEN {SortByTimestamp([i \in 1..Len(ledger) |-> i])}
    ELSE OrderedByTimestamp

Least(a, b) == IF a < b THEN a ELSE b

\* MemStorage: movements.slice(0, limit); the database: the same query with
\* .limit(limit).
GetRecentStockMovements(limit) ==
    {SubSeq(o, 1, Least(limit, Len(o))) : o \in GetStockMovementsWithDetails}

\* GET /stock-movements
ReadStockMovements ==
    \E movements \in GetStockMovementsWithDetails :
        Read([NoView EXCEPT !.op = "getStockMovementsWithDetails",
                            !.movements = movements, !.count = Len(ledger)])

\* GET /dashboard: storage.getRecentStockMovements(limit).
ReadRecentStockMovements(limit) ==
    \E movements \in GetRecentStockMovements(limit) :
        Read([NoView EXCEPT !.op = "getRecentStockMovements",
                            !.movements = movements, !.limit = limit,
                            !.count = Len(ledger)])

InitLedgerReads == InitStores(1)

\* Movements are recorded, time passes, and the ledger is read.
NextLedgerReads ==
    \/ ReadStockMovements
    \/ \E limit \in (1..MaxLimit) \cup {RecentLimit} :
           ReadRecentStockMovements(limit)
    \/ Tick
    \/ \E s \in Slots :
           \/ \E q \in Deltas, note \in Notes : PostStockMovement(s, 1, 1, q, note)
           \/ PostStockMovementGetLocation(s)
           \/ CreateStockMovement(s)
           \/ CreateStockMovementUpdate(s)

SpecLedgerReads == InitLedgerReads /\ [][NextLedgerReads]_vars

\* m lists entries of the first n of the ledger, newest first, entries of one
\* timestamp in id order, and no entry left out belongs before a listed one.
NewestFirst(m, n) ==
    /\ \A i \in 1..Len(m) : m[i] \in 1..n
    /\ \A i, j \in 1..Len(m) :
           i < j => \/ Newer(m[i], m[j])
                    \/ (timestamps[m[i]] = timestamps[m[j]] /\ m[i] < m[j])
    /\ \A k \in (1..n) \ {m[i] : i \in 1..Len(m)} :
           \A i \in 1..Len(m) :
               \/ Newer(m[i], k)
               \/ (timestamps[m[i]] = timestamps[k] /\ m[i] < k)

\* C24: getStockMovementsWithDetails returns every ledger entry, newest
\* first and entries of equal timestamp in id order; getRecentStockMovements
\* returns the first min(limit, ledger length) entries of that order.
C24_LedgerReadsOrdered ==
    /\ view.op = "getStockMovementsWithDetails"
           => (Len(view.movements) = view.count
               /\ NewestFirst(view.movements, view.count))
    /\ view.op = "getRecentStockMovements"
           => (Len(view.movements) = Least(view.limit, view.count)
               /\ NewestFirst(view.movements, view.count))

(* ----------------------- the two storages, side by side --------------- *)

\* MemStorage.createStockMovement awaited to its end: the rows it leaves and
\* the next inventory id.
MemCreateStockMovement(inv, nextId, mov) ==
    LET item == GetInventoryByProductAndLocation(inv, mov.productId, mov.locationId)
    IN  IF item.id # 0
        THEN [inventory |-> UpdateInventoryItem(inv, item.id,
                                [NoData EXCEPT !.hasQuantity = TRUE,
                                               !.quantity = item.quantity + mov.quantity]),
              inventoryId |-> nextId]
        ELSE IF mov.quantity > 0
        THEN [inventory |-> InsertRow(inv, nextId, mov.productId, mov.locationId,
                                      mov.quantity),
              inventoryId |-> nextId + 1]
        ELSE [inventory |-> inv, inventoryId |-> nextId]

\* A call of the IStorage interface made on both storages; the call counts
\* against the operations of the run.
StorageCall(op) ==
    /\ started < MaxOps
    /\ started' = started + 1
    /\ opsUsed' = opsUsed \cup {op}
    /\ UNCHANGED <<backend, products, locations, locationId, reqs, maxInFlight,
                   prev, categories, categoryId, productId, clock, view, seed>>

\* createInventoryItem: the map takes the row; the table takes it when its
\* constraints allow and throws otherwise.
TwinCreateInventoryItem(p, l, q) ==
    LET row == [id |-> twin.inventoryId, productId |-> p, locationId |-> l,
                quantity |-> q]
    IN  /\ StorageCall("createInventoryItem")
        /\ inventory' = InsertRow(inventory, inventoryId, p, l, q)
        /\ inventoryId' = inventoryId + 1
        /\ twin' = [twin EXCEPT
                       !.inventory = IF RowAllowed(twin.inventory, row)
                                     THEN twin.inventory \cup {row}
                                     ELSE twin.inventory,
                       !.inventoryId = twin.inventoryId + 1]
        /\ UNCHANGED <<ledger, timestamps>>

TwinUpdateInventoryItem(id, data) ==
    LET updated == UpdateInventoryItem(twin.inventory, id, data)
    IN  /\ StorageCall("updateInventoryItem")
        /\ inventory' = UpdateInventoryItem(inventory, id, data)
        /\ twin' = [twin EXCEPT
                       !.inventory = IF \A row \in updated : RowAllowed(updated, row)
                                     THEN updated ELSE twin.inventory]
        /\ UNCHANGED <<inventoryId, ledger, timestamps>>

TwinDeleteInventoryItem(id) ==
    /\ StorageCall("deleteInventoryItem")
    /\ inventory' = DeleteInventoryItem(inventory, id)
    /\ twin' = [twin EXCEPT !.inventory = DeleteInventoryItem(twin.inventory, id)]
    /\ UNCHANGED <<inventoryId, ledger, timestamps>>

\* createStockMovement: MemStorage records the entry and adjusts the
\* aggregate; DatabaseStorage inserts the entry.
TwinCreateStockMovement(mov) ==
    LET mem == MemCreateStockMovement(inventory, inventoryId, mov)
    IN  /\ StorageCall("createStockMovement")
        /\ ledger' = Append(ledger, mov)
        /\ timestamps' = Append(timestamps, clock)
        /\ inventory' = mem.inventory
        /\ inventoryId' = mem.inventoryId
        /\ twin' = [twin EXCEPT
                       !.ledger = IF MovementAllowed(mov) THEN Append(twin.ledger, mov)
                                  ELSE twin.ledger]

\* Both storages start empty, on the same catalog.
InitTwin == InitStores(1) /\ backend = "mem"

\* The pairs of the calls: product 1 at either location.
TwinPairs == {<<1, 1>>, <<1, 2>>}

NextTwin ==
    \/ \E pl \in TwinPairs, q \in Quantities :
           TwinCreateInventoryItem(pl[1], pl[2], q)
    \/ \E id \in {r.id : r \in inventory}, q \in Quantities :
           TwinUpdateInventoryItem(id, [NoData EXCEPT !.hasQuantity = TRUE,
                                                      !.quantity = q])
    \/ \E id \in {r.id : r \in inventory} : TwinDeleteInventoryItem(id)
    \/ \E pl \in TwinPairs, q \in Deltas, note \in Notes :
           TwinCreateStockMovement([productId |-> pl[1], locationId |-> pl[2],
                                    quantity |-> q, note |-> note])

SpecTwin == InitTwin /\ [][NextTwin]_vars

\* The aggregate rows, without their ids.
Aggregates(inv) ==
    {[productId |-> r.productId, locationId |-> r.locationId,
      quantity |-> r.quantity] : r \in inv}

\* C25: given the same calls from equal contents, MemStorage and
\* DatabaseStorage hold the same aggregate rows and the same ledger entries.
C25_StoragesAgree ==
    /\ Aggregates(inventory) = Aggregates(twin.inventory)
    /\ ledger = twin.ledger

(* --------------------- GET /inventory?stockStatus= -------------------- *)

StockStatuses == {"In Stock", "Low Stock", "Out of Stock"}

\* The stockStatus filter of the route, with minLevel = item.minStockLevel || 0.
StockStatusFilter(item, stockStatus) ==
    LET minLevel == item.minStockLevel
    IN  \/ stockStatus = "In Stock" /\ item.quantity > minLevel
        \/ stockStatus = "Low Stock" /\ item.quantity > 0 /\ item.quantity <= minLevel
        \/ stockStatus = "Out of Stock" /\ item.quantity = 0

\* GET /inventory?stockStatus=...: the rows with details, filtered.
ReadInventory(stockStatus) ==
    LET Selected(item) == StockStatusFilter(item, stockStatus)
    IN  Read([NoView EXCEPT
                !.op = "getInventory", !.status = stockStatus,
                !.items = SelectSeq(GetInventoryItemsWithDetails(inventory),
                                    Selected),
                !.inv = inventory])

\* The inventory list and the low-stock list are read while a movement, of
\* either sign, is recorded for pair (1, 1).
NextInventoryList ==
    \/ \E stockStatus \in StockStatuses : ReadInventory(stockStatus)
    \/ ReadLowStockItems
    \/ \E s \in Slots :
           \/ \E q \in Deltas, note \in Notes :
                  started < MaxMovements /\ PostStockMovement(s, 1, 1, q, note)
           \/ PostStockMovementGetLocation(s)
           \/ CreateStockMovement(s)
           \/ CreateStockMovementUpdate(s)

SpecInventoryList == InitReads /\ [][NextInventoryList]_vars

\* C26: the stockStatus filter of the inventory list selects a row under
\* exactly the status calculateStockStatus gives its quantity and
\* minStockLevel, negative quantities included, and the row is in
\* getLowStockItems exactly when that status is not In Stock.
C26_StatusUniform ==
    LET Status(x) == CalculateStockStatus(x.quantity,
                                          ProductOf(x.productId).minStockLevel)
        listed == {view.items[i].id : i \in 1..Len(view.items)}
    IN  /\ view.op = "getInventory"
               => listed = {x.id : x \in {y \in view.inv : Status(y) = view.status}}
        /\ view.op = "getLowStockItems"
               => listed = {x.id : x \in {y \in view.inv : Status(y) # "In Stock"}}

\* C27: after an import whose one row was imported, the aggregate quantity of
\* the row's (product, location) pair is the row's quantity, and the ledger
\* entries the row appended are for that pair and sum to the row's quantity
\* less the prior quantity of the pair (0 without a prior row).
C27_ImportSetsAbsolute ==
    \A s \in Slots :
        LET r == reqs[s]
            p == r.data.productId
            l == r.data.locationId
            added == Appended(ledger, r.led0)
        IN  (Completed(s, "importInventory") /\ r.n = 1 /\ r.imported = 1)
                => /\ HasRow(inventory, p, l)
                   /\ QuantityOf(inventory, p, l) = r.row.quantity
                   /\ Extends(ledger, r.led0)
                   /\ MovementsOf(added, p, l) = added
                   /\ SumQuantity(added) = r.row.quantity - QuantityOf(r.inv0, p, l)

(* ------------------- PUT /inventory/:id, partial bodies --------------- *)

\* The bodies of a quantity update: the quantity, the location, both or
\* neither.
PartialBodies ==
    {[productId |-> 0, locationId |-> l, hasQuantity |-> h, quantity |-> q] :
        l \in {0, 2}, h \in BOOLEAN, q \in Quantities}
    \ {[productId |-> 0, locationId |-> l, hasQuantity |-> FALSE, quantity |-> q] :
          l \in {0, 2}, q \in Quantities \ {0}}

\* Rows are created for product 1 and updated.
NextPut ==
    \E s \in Slots :
        \/ \E l \in {1, 2}, q \in Quantities : PostInventory(s, 1, l, q)
        \/ PostInventoryGetLocation(s)
        \/ PostInventoryGetExisting(s)
        \/ PostInventoryCreate(s)
        \/ CreateStockMovement(s)
        \/ CreateStockMovementUpdate(s)
        \/ \E id \in InventoryIds, data \in PartialBodies : PutInventory(s, id, data)
        \/ PutInventoryGetDuplicate(s)
        \/ PutInventoryUpdate(s)

SpecPut == Init /\ [][NextPut]_vars

\* C28: an update that supplies the current quantity, or no quantity, appends
\* no ledger entry and leaves the quantity of the row as it was.
C28_NoChangeNoMovement ==
    \A s \in Slots :
        LET r == reqs[s]
        IN  (/\ Completed(s, "putInventory") /\ r.status = 200
             /\ (~r.data.hasQuantity \/ r.data.quantity = r.existing.quantity))
                => /\ ledger = r.led0
                   /\ GetInventoryItem(inventory, r.id).quantity
                          = r.existing.quantity

\* A row with a recorded quantity of 1 was updated to quantity 1, and a body
\* without a quantity is accepted as well (the row now at location 2).
C28_Witness ==
    \E s \in Slots :
        LET r == reqs[s]
        IN  /\ Completed(s, "putInventory") /\ r.status = 200
            /\ ledger # <<>>
            /\ r.existing.quantity > 0
            /\ \/ r.data.hasQuantity /\ r.data.quantity = r.existing.quantity
               \/ ~r.data.hasQuantity /\ r.data.locationId = 2
                      /\ r.existing.locationId = 1

\* C29: every aggregate row and every ledger entry references a product and
\* a location that exist.
C29_ReferencesExist ==
    /\ \A r \in inventory : GetProduct(r.productId) /\ GetLocation(r.locationId)
    /\ \A i \in 1..Len(ledger) :
           GetProduct(ledger[i].productId) /\ GetLocation(ledger[i].locationId)

\* The rows of the pairs other than (p, l).
OtherPairs(inv, p, l) == {x \in inv : x.productId # p \/ x.locationId # l}

\* C30: a request addressed to one pair (POST /inventory, POST
\* /stock-movements, a PUT /inventory/:id that keeps the pair, DELETE
\* /inventory/:id) leaves the rows of every other pair as they were and
\* appends at most one ledger entry, for the addressed pair.
C30_Frame ==
    \A s \in Slots :
        LET r == reqs[s]
            byId == r.op \in {"putInventory", "deleteInventory"}
            p == IF byId THEN r.existing.productId ELSE r.data.productId
            l == IF byId THEN r.existing.locationId ELSE r.data.locationId
            added == Appended(ledger, r.led0)
        IN  (/\ r.pc = "done"
             /\ r.op \in {"postInventory", "postStockMovement", "putInventory",
                          "deleteInventory"}
             /\ r.op = "putInventory" => ~ChangesPair(r.data, r.existing))
                => /\ OtherPairs(inventory, p, l) = OtherPairs(r.inv0, p, l)
                   /\ Extends(ledger, r.led0)
                   /\ Len(added) <= 1
                   /\ MovementsOf(added, p, l) = added

\* A movement was recorded for one pair while another pair had a row.
C30_Witness ==
    \E s \in Slots :
        LET r == reqs[s]
        IN  /\ Completed(s, "postStockMovement") /\ r.status = 201
            /\ Len(Appended(ledger, r.led0)) = 1
            /\ OtherPairs(inventory, r.data.productId, r.data.locationId) # {}
            /\ HasRow(inventory, r.data.productId, r.data.locationId)

====
